---- MODULE Spec2Model ----
(***************************************************************************)
(* The review-analysis pipeline of ai-reviews-backend:                     *)
(*   apps/review_analysis/tasks.py          run_review_pipeline            *)
(*   apps/review_analysis/services/steps/*  the five built-in steps        *)
(*   apps/review_analysis/models.py         AnalysisResult, ReviewTicket   *)
(*   apps/review_analysis/admin.py          the operator's ticket actions  *)
(*                                                                         *)
(* Numbers that are floats in the source are integers in hundredths here   *)
(* (polarity 0.3 is 30, confidence 1.0 is 100).  Python's None is the      *)
(* string None; a dict is a function whose DOMAIN is the set of its keys.  *)
(***************************************************************************)
EXTENDS Integers, Sequences, FiniteSets, TLC

VARIABLES
    review,     \* the Review under analysis and what the NLP libraries see in it
    configs,    \* the PipelineStepConfig rows
    results,    \* the AnalysisResult rows, in insertion order
    tickets,    \* the ReviewTicket rows, in insertion order
    run,        \* run[w]: the pipeline run worker w is executing
    clock,      \* what datetime.utcnow() reads
    started,    \* the number of runs started so far
    faults,     \* the number of unexpected exceptions raised so far
    history,    \* the last finished runs: what each was given and the row it left
    env,        \* what the process found at import time: NLP libraries, API key
    probe,      \* the inputs and the result of one call of a pure function
    queue,      \* the messages on the broker, oldest first
    stored,     \* the ids of the rows of Review
    post_save,  \* the last post_save signal of Review that was handled
    batch       \* the call of reanalyze_reviews in progress

\* what the producers of jobs change
producers == <<queue, stored, post_save, batch>>

vars == <<review, configs, results, tickets, run, clock, started, faults,
          history, env, probe, producers>>

-----------------------------------------------------------------------------
(* Bounds of the model *)

MaxRuns == 2
MaxFaults == 1
MaxIssues == 3
MaxProbeIssues == 2
MaxQueue == 2
MaxBatch == 3

-----------------------------------------------------------------------------
(* Python values *)

None == "None"

Get(d, k, default) == IF k \in DOMAIN d THEN d[k] ELSE default

Put(d, k, v) == [x \in DOMAIN d \cup {k} |-> IF x = k THEN v ELSE d[x]]

Update(d, e) == [x \in DOMAIN d \cup DOMAIN e |-> IF x \in DOMAIN e THEN e[x] ELSE d[x]]

Min(a, b) == IF a < b THEN a ELSE b

Max(a, b) == IF a > b THEN a ELSE b

Abs(a) == IF a < 0 THEN -a ELSE a

\* t in s, for Python strings
Contains(s, t) ==
    \E i \in 1..(Len(s) - Len(t) + 1) : SubSeq(s, i, i + Len(t) - 1) = t

LowerChar(c) ==
    CASE c = "A" -> "a" [] c = "B" -> "b" [] c = "C" -> "c" [] c = "D" -> "d"
      [] c = "E" -> "e" [] c = "F" -> "f" [] c = "G" -> "g" [] c = "H" -> "h"
      [] c = "I" -> "i" [] c = "J" -> "j" [] c = "K" -> "k" [] c = "L" -> "l"
      [] c = "M" -> "m" [] c = "N" -> "n" [] c = "O" -> "o" [] c = "P" -> "p"
      [] c = "Q" -> "q" [] c = "R" -> "r" [] c = "S" -> "s" [] c = "T" -> "t"
      [] c = "U" -> "u" [] c = "V" -> "v" [] c = "W" -> "w" [] c = "X" -> "x"
      [] c = "Y" -> "y" [] c = "Z" -> "z" [] OTHER -> c

RECURSIVE Lower(_)
\* s.lower()
Lower(s) ==
    IF Len(s) = 0 THEN s
    ELSE LowerChar(SubSeq(s, 1, 1)) \o Lower(SubSeq(s, 2, Len(s)))

\* any(p in x for x in xs)
AnyContains(xs, p) == \E i \in 1..Len(xs) : Contains(xs[i], p)

Truthy(v) == v # None /\ v # ""

-----------------------------------------------------------------------------
(* ToneDetectionStep *)

\* _get_tone with the two ends of the negative band open the other way
GetToneShifted(polarity) ==
    IF polarity <= -50 THEN "very_negative"
    ELSE IF polarity < -10 THEN "negative"
    ELSE IF polarity <= 10 THEN "neutral"
    ELSE IF polarity <= 50 THEN "positive"
    ELSE "very_positive"

\* _get_tone; polarity in hundredths
GetTone(polarity) ==
    IF polarity < -50 THEN "very_negative"
    ELSE IF -50 <= polarity /\ polarity < -10 THEN "negative"
    ELSE IF -10 <= polarity /\ polarity <= 10 THEN "neutral"
    ELSE IF 10 < polarity /\ polarity <= 50 THEN "positive"
    ELSE "very_positive"

\* _simple_polarity_analysis with the two weights exchanged
SimplePolarityWordHeavy(pos_hits, neg_hits, rating) ==
    LET final_polarity == 15 * (rating - 3) + 7 * (pos_hits - neg_hits)
    IN  Max(-100, Min(100, final_polarity))

\* _simple_polarity_analysis: base_polarity * 0.7 + word_polarity * 0.3, where
\* base_polarity = (rating - 3) / 2 and word_polarity = (pos - neg) * 0.1
SimplePolarity(pos_hits, neg_hits, rating) ==
    LET final_polarity == 35 * (rating - 3) + 3 * (pos_hits - neg_hits)
    IN  Max(-100, Min(100, final_polarity))

\* ToneDetectionStep.process
ToneDetection(rv, e, ctx) ==
    LET polarity == IF e.vader THEN rv.polarity
                    ELSE SimplePolarity(rv.pos_hits, rv.neg_hits, rv.rating)
        vader_scores == [compound |-> polarity]
        subjectivity == IF e.nlp THEN rv.subjectivity ELSE 50
        ctx1 == IF e.nlp THEN Put(ctx, "nlp_doc", "doc") ELSE ctx
    IN  Update(ctx1, [tone |-> GetTone(polarity),
                      raw_polarity |-> polarity,
                      raw_subjectivity |-> subjectivity,
                      vader_scores |-> vader_scores])

-----------------------------------------------------------------------------
(* IssueDetectionStep *)

NoIssueSentinel == <<"No specific issue or request detected">>

\* IssueDetectionStep.process and _detect_issues: rv.issues is what the two
\* pattern catalogs match in the content, rv.extra what the syntactic
\* analysis of the parsed document adds
IssueDetection(rv, e, ctx) ==
    LET hasDoc == "nlp_doc" \in DOMAIN ctx \/ e.nlp_issue
        ctx1 == IF "nlp_doc" \notin DOMAIN ctx /\ e.nlp_issue
                THEN Put(ctx, "nlp_doc", "doc") ELSE ctx
        issues == IF hasDoc THEN rv.issues \o rv.extra ELSE rv.issues
    IN  Put(ctx1, "issues", IF issues # <<>> THEN issues ELSE NoIssueSentinel)

-----------------------------------------------------------------------------
(* ComplexityCheckStep *)

\* _is_complex with the mismatch of rating and polarity tested first
IsComplexMismatchFirst(hasDoc, polarity, subjectivity, rating, rv, vader) ==
    LET expected_polarity == 50 * (rating - 3)
    IN  IF Abs(expected_polarity - polarity) > 70
        THEN "Need review: Significant mismatch between rating and sentiment"
        ELSE IF Abs(polarity) < 30 /\ subjectivity > 40 /\ hasDoc /\ rv.sentences > 1
        THEN "Need review: Mixed or ambiguous sentiment"
        ELSE IF rating >= 4 /\ polarity < -30
        THEN "Need review: High rating but negative sentiment - possible sarcasm"
        ELSE IF rating <= 2 /\ polarity > 30
        THEN "Need review: Low rating but positive sentiment"
        ELSE IF hasDoc /\ vader /\ rv.sentences > 1 /\ rv.spread > 100
        THEN "Need review: Conflicting sentiments across sentences"
        ELSE IF rv.words < 5 /\ rating \in {1, 5} /\ ~(rating = 5 /\ polarity > 30)
        THEN "Need review: Very short review with extreme rating"
        ELSE None

\* _is_complex
IsComplex(hasDoc, polarity, subjectivity, rating, rv, vader) ==
    LET expected_polarity == 50 * (rating - 3)
    IN  IF Abs(polarity) < 30 /\ subjectivity > 40 /\ hasDoc /\ rv.sentences > 1
        THEN "Need review: Mixed or ambiguous sentiment"
        ELSE IF rating >= 4 /\ polarity < -30
        THEN "Need review: High rating but negative sentiment - possible sarcasm"
        ELSE IF rating <= 2 /\ polarity > 30
        THEN "Need review: Low rating but positive sentiment"
        ELSE IF Abs(expected_polarity - polarity) > 70
        THEN "Need review: Significant mismatch between rating and sentiment"
        ELSE IF hasDoc /\ vader /\ rv.sentences > 1 /\ rv.spread > 100
        THEN "Need review: Conflicting sentiments across sentences"
        ELSE IF rv.words < 5 /\ rating \in {1, 5} /\ ~(rating = 5 /\ polarity > 30)
        THEN "Need review: Very short review with extreme rating"
        ELSE None

\* _should_skip_gpt
ShouldSkipGpt(rv, rating, polarity, hasDoc) ==
    LET word_count == rv.words
        lexical_diversity == IF hasDoc THEN rv.diversity ELSE 50
    IN  \/ word_count <= 3 /\ \/ rating >= 4 /\ polarity > 30
                              \/ rating <= 2 /\ polarity < -30
        \/ /\ 4 <= word_count /\ word_count <= 10
           /\ hasDoc
           /\ rv.complex_pos <= 3 /\ lexical_diversity < 70
           /\ \/ rating >= 4 /\ polarity > 20
              \/ rating <= 2 /\ polarity < -20
        \/ /\ hasDoc /\ rv.sentences = 1
           /\ rv.simple_stmt /\ word_count <= 6
           /\ \/ rating >= 4 /\ polarity > 0
              \/ rating <= 2 /\ polarity < 0
        \/ word_count > 10 /\ rv.max_freq > 30
        \/ rv.non_alpha > 50

\* ComplexityCheckStep.process
ComplexityCheck(rv, e, ctx) ==
    LET polarity == Get(ctx, "raw_polarity", 0)
        subjectivity == Get(ctx, "raw_subjectivity", 50)
        hasDoc == Get(ctx, "nlp_doc", None) # None
    IN  Update(ctx, [complex_review |->
                        IsComplex(hasDoc, polarity, subjectivity, rv.rating, rv, e.vader),
                     skip_gpt |-> ShouldSkipGpt(rv, rv.rating, polarity, hasDoc)])

-----------------------------------------------------------------------------
(* GPTAnalysisStep *)

AVG_INPUT_TOKENS == 200
AVG_OUTPUT_TOKENS == 100
\* prices per token, in units of 1e-7
INPUT_PRICE_PER_TOKEN == 1
OUTPUT_PRICE_PER_TOKEN == 4

\* _map_tone
MapTone(gpt_tone) ==
    CASE gpt_tone = "Very Negative" -> "very_negative"
      [] gpt_tone = "Negative" -> "negative"
      [] gpt_tone = "Neutral" -> "neutral"
      [] gpt_tone = "Positive" -> "positive"
      [] gpt_tone = "Very Positive" -> "very_positive"
      [] gpt_tone = "very negative" -> "very_negative"
      [] gpt_tone = "very positive" -> "very_positive"
      [] OTHER -> "neutral"

\* the skip conditions without the test of complex_review, lines 66-68
GptCallsUnlessFlagged(params, e, ctx) ==
    /\ e.api_key
    /\ \/ ~Get(params, "skip_if_simple", TRUE)
       \/ ~Get(ctx, "skip_gpt", FALSE)

\* the skip conditions of GPTAnalysisStep.process: TRUE when the LLM is called
GptCalls(params, e, ctx) ==
    /\ e.api_key
    /\ \/ ~Get(params, "skip_if_simple", TRUE)
       \/ /\ ~Get(ctx, "skip_gpt", FALSE)
          /\ ~("complex_review" \in DOMAIN ctx /\ ~Truthy(ctx["complex_review"]))

\* GPTAnalysisStep.process, should it return a dict of its own results
GptAnalysisFresh(params, e, ctx, llm) ==
    IF ~GptCalls(params, e, ctx) THEN ctx
    ELSE IF ~llm.ok
    THEN [gpt_error |-> "error", analysis_source |-> "local"]
    ELSE [tone |-> MapTone(Get(llm.json, "tone", Get(ctx, "tone", "neutral"))),
          issues |-> Get(llm.json, "issues", Get(ctx, "issues", <<>>)),
          complex_review |-> Get(llm.json, "complex_review", None),
          raw_polarity |-> Get(llm.json, "raw_polarity", Get(ctx, "raw_polarity", 0)),
          notes |-> Get(llm.json, "notes", None),
          confidence |-> Get(llm.json, "confidence", 80),
          analysis_source |-> "gpt",
          gpt_cost |-> AVG_INPUT_TOKENS * INPUT_PRICE_PER_TOKEN
                       + AVG_OUTPUT_TOKENS * OUTPUT_PRICE_PER_TOKEN]

\* GPTAnalysisStep.process, should a failure of the call reset the tone
GptAnalysisResets(params, e, ctx, llm) ==
    IF ~GptCalls(params, e, ctx) THEN ctx
    ELSE Update(ctx, [gpt_error |-> "error", analysis_source |-> "local",
                      tone |-> "neutral"])

\* GPTAnalysisStep.process; reply.json is the parsed JSON object the LLM
\* returned, and reply.ok is FALSE when the prompt lookup, the call or the
\* parsing raised
GptAnalysis(params, e, ctx, llm) ==
    IF ~GptCalls(params, e, ctx) THEN ctx
    ELSE IF ~llm.ok
    THEN Update(ctx, [gpt_error |-> "error", analysis_source |-> "local"])
    ELSE Update(ctx,
           [tone |-> MapTone(Get(llm.json, "tone", Get(ctx, "tone", "neutral"))),
            issues |-> Get(llm.json, "issues", Get(ctx, "issues", <<>>)),
            complex_review |-> Get(llm.json, "complex_review", None),
            raw_polarity |-> Get(llm.json, "raw_polarity", Get(ctx, "raw_polarity", 0)),
            notes |-> Get(llm.json, "notes", None),
            confidence |-> Get(llm.json, "confidence", 80),
            analysis_source |-> "gpt",
            gpt_cost |-> AVG_INPUT_TOKENS * INPUT_PRICE_PER_TOKEN
                         + AVG_OUTPUT_TOKENS * OUTPUT_PRICE_PER_TOKEN])

-----------------------------------------------------------------------------
(* PersistenceStep *)

HiddenIssueFlag == "Yes: Hidden issue in positive review"

\* PersistenceStep.process, lines 26-30: the context with the step logged
PersistenceContext(ctx) ==
    LET executed_steps == Get(ctx, "executed_steps", <<>>)
    IN  Put(ctx, "executed_steps",
            IF \E i \in 1..Len(executed_steps) : executed_steps[i] = "persistence"
            THEN executed_steps ELSE Append(executed_steps, "persistence"))

\* PersistenceStep.process, lines 32-57: analysis_data, the defaults of the
\* upsert; ctx is the context with the step logged, now is utcnow()
AnalysisData(rv, ctx, now) ==
    LET data == [tone |-> Get(ctx, "tone", "neutral"),
                 raw_polarity |-> Get(ctx, "raw_polarity", 0),
                 raw_subjectivity |-> Get(ctx, "raw_subjectivity", 50),
                 issues |-> Get(ctx, "issues", <<>>),
                 complex_review |-> Get(ctx, "complex_review", None),
                 notes |-> Get(ctx, "notes", None),
                 confidence |-> Get(ctx, "confidence", 100),
                 analysis_source |-> Get(ctx, "analysis_source", "local"),
                 full_payload |->
                    [vader_scores |-> Get(ctx, "vader_scores", <<>>),
                     gpt_cost |-> Get(ctx, "gpt_cost", None),
                     gpt_error |-> Get(ctx, "gpt_error", None),
                     processing_timestamp |-> now,
                     executed_steps |-> Get(ctx, "executed_steps", <<>>),
                     skip_gpt |-> Get(ctx, "skip_gpt", None),
                     context_keys |-> DOMAIN ctx]]
    IN  IF /\ rv.rating >= 4
           /\ data.issues # NoIssueSentinel
           /\ AnyContains(data.issues, "Problem:")
        THEN Put(data, "flag_support", HiddenIssueFlag)
        ELSE data

\* the defaults of the zero path, should they keep the defaults of a local run
MinimalDataLocal(now) ==
    [tone |-> "neutral",
     raw_polarity |-> 0,
     raw_subjectivity |-> 50,
     issues |-> <<"No analysis performed - all steps disabled">>,
     analysis_source |-> "local",
     confidence |-> 100,
     full_payload |-> [processing_timestamp |-> now,
                       executed_steps |-> <<>>,
                       warning |-> "No pipeline steps were enabled"]]

\* run_review_pipeline, lines 56-68: the defaults of the upsert when no step
\* is enabled
MinimalData(now) ==
    [tone |-> "neutral",
     raw_polarity |-> 0,
     raw_subjectivity |-> 50,
     issues |-> <<"No analysis performed - all steps disabled">>,
     analysis_source |-> "none",
     confidence |-> 0,
     full_payload |-> [processing_timestamp |-> now,
                       executed_steps |-> <<>>,
                       warning |-> "No pipeline steps were enabled"]]

\* the tone test of _should_create_ticket, line 101
IsNegativeTone(tone) == tone \in {"Very Negative", "Negative"}

\* _should_create_ticket without its last test, the support flag
ShouldCreateTicketNoFlag(params, analysis_result, rating) ==
    LET has_problems == AnyContains(analysis_result.issues, "Problem:")
        is_complex == Truthy(analysis_result.complex_review)
        auto_ticket_for_problems == Get(params, "auto_ticket_for_problems", TRUE)
        auto_ticket_for_complex == Get(params, "auto_ticket_for_complex", TRUE)
        ticket_only_for_negative == Get(params, "ticket_only_for_negative", FALSE)
    IN  \/ /\ has_problems /\ auto_ticket_for_problems
           /\ IF ticket_only_for_negative
              THEN rating <= 3 \/ IsNegativeTone(analysis_result.tone)
              ELSE TRUE
        \/ is_complex /\ auto_ticket_for_complex

\* _should_create_ticket; rating is analysis_result.review.rating
ShouldCreateTicket(params, analysis_result, rating) ==
    LET has_problems == AnyContains(analysis_result.issues, "Problem:")
        is_complex == Truthy(analysis_result.complex_review)
        has_support_flag == Truthy(analysis_result.flag_support)
        auto_ticket_for_problems == Get(params, "auto_ticket_for_problems", TRUE)
        auto_ticket_for_complex == Get(params, "auto_ticket_for_complex", TRUE)
        ticket_only_for_negative == Get(params, "ticket_only_for_negative", FALSE)
    IN  \/ /\ has_problems /\ auto_ticket_for_problems
           /\ IF ticket_only_for_negative
              THEN rating <= 3 \/ IsNegativeTone(analysis_result.tone)
              ELSE TRUE
        \/ is_complex /\ auto_ticket_for_complex
        \/ has_support_flag

\* tone_priorities.get(tone, 1)
TonePriority(tone) ==
    CASE tone = "very_negative" -> 3
      [] tone = "negative" -> 2
      [] tone = "neutral" -> 1
      [] tone = "positive" -> 0
      [] tone = "very_positive" -> 0
      [] OTHER -> 1

\* the if/elif chain of _calculate_priority, lines 171-178
SeverityWeight(issue) ==
    LET low == Lower(issue)
    IN  IF Contains(low, "critical") THEN 4
        ELSE IF Contains(low, "high") THEN 3
        ELSE IF Contains(low, "medium") THEN 2
        ELSE IF Contains(low, "low") THEN 1
        ELSE 0

RECURSIVE SumSeverity(_)
SumSeverity(issues) ==
    IF issues = <<>> THEN 0
    ELSE SeverityWeight(Head(issues)) + SumSeverity(Tail(issues))

\* the sum _calculate_priority clamps
RawPriority(analysis_result) ==
    TonePriority(analysis_result.tone)
    + SumSeverity(analysis_result.issues)
    + (IF Truthy(analysis_result.flag_support) THEN 2 ELSE 0)
    + (IF Truthy(analysis_result.complex_review) THEN 1 ELSE 0)

\* _calculate_priority without the min of line 188
CalculatePriorityUnclamped(analysis_result) == RawPriority(analysis_result)

\* _calculate_priority
CalculatePriority(analysis_result) == Min(RawPriority(analysis_result), 10)

\* [i for i in issues if tag in i]
Tagged(issues, tag) == SelectSeq(issues, LAMBDA i : Contains(i, tag))

RECURSIVE Join(_, _)
\* sep.join(xs)
Join(xs, sep) ==
    IF xs = <<>> THEN ""
    ELSE IF Len(xs) = 1 THEN xs[1]
    ELSE xs[1] \o sep \o Join(Tail(xs), sep)

\* _generate_ticket_notes; the four emoji are written [!], [?], [bug], [idea]
GenerateTicketNotes(analysis_result) ==
    LET problems == Tagged(analysis_result.issues, "Problem:")
        requests == Tagged(analysis_result.issues, "Request:")
        n1 == IF Truthy(analysis_result.flag_support)
              THEN <<"[!] " \o analysis_result.flag_support>> ELSE <<>>
        n2 == IF Truthy(analysis_result.complex_review)
              THEN <<"[?] " \o analysis_result.complex_review>> ELSE <<>>
        n3 == IF problems # <<>> THEN <<"[bug] " \o Join(problems, ", ")>> ELSE <<>>
        n4 == IF requests # <<>> THEN <<"[idea] " \o Join(requests, ", ")>> ELSE <<>>
    IN  Join(n1 \o n2 \o n3 \o n4, "\n")

-----------------------------------------------------------------------------
(* The database *)

ReviewId == 1

\* an id no row of Review has
MissingId == ReviewId + 1

\* AnalysisResult.objects.create(review=review, **defaults): the fields the
\* defaults do not name take the defaults of the model
NewAnalysisResult(id, defaults, now) ==
    Update([id |-> id,
            review |-> ReviewId,
            issues |-> <<>>,
            complex_review |-> None,
            notes |-> None,
            confidence |-> 100,
            analysis_source |-> "local",
            analysis_timestamp |-> now,
            full_payload |-> <<>>,
            flag_support |-> None],
           defaults)

\* the update branch, should the issues be added to those stored
UpdatedAdditive(row, defaults) ==
    Update(row, [defaults EXCEPT !.issues = row.issues \o @])

\* the update branch of update_or_create: setattr(obj, k, v) for the defaults
UpdatedAnalysisResult(row, defaults) == Update(row, defaults)

\* AnalysisResult.objects.get(review=review) finds a row
ReviewTaken(rows, review_id) == \E i \in 1..Len(rows) : rows[i].review = review_id

\* a review field without the unique index
NoUniqueIndex(rows, review_id) == FALSE

\* the unique index of the OneToOneField AnalysisResult.review refuses a
\* second row of the review
UniqueViolation(rows, review_id) == ReviewTaken(rows, review_id)

\* the index of the AnalysisResult of the review
RowOf(rows, review_id) == CHOOSE i \in 1..Len(rows) : rows[i].review = review_id

IsActive(ticket) == ticket.status \in {"open", "in_progress"}

\* a lookup that finds no ticket, whatever the table holds
NoneActive(rows, review_id) == 0

\* ReviewTicket.objects.filter(review=review, status__in=[...]).first() under
\* the ordering -created_at: 0 when there is none
FirstActive(rows, review_id) ==
    LET active == {i \in 1..Len(rows) : rows[i].review = review_id /\ IsActive(rows[i])}
    IN  IF active = {} THEN 0 ELSE CHOOSE i \in active : \A j \in active : j <= i

\* ReviewTicket.objects.create(review, analysis_result, priority, notes)
NewTicket(id, analysis_result) ==
    [id |-> id,
     review |-> ReviewId,
     analysis_result |-> analysis_result.id,
     status |-> "open",
     assignee |-> None,
     priority |-> CalculatePriority(analysis_result),
     notes |-> GenerateTicketNotes(analysis_result)]

-----------------------------------------------------------------------------
(* The orchestrator *)

Workers == {1, 2}

\* StepRegistry._registry
RegisteredKeys ==
    {"tone_detection", "issue_detection", "complexity_check", "gpt_analysis",
     "persistence"}

\* max_retries of the shared_task decorator
max_retries == 3

\* a worker with no job.  review_id is the argument of the job, retries is
\* self.request.retries, countdown the delay of the retry scheduled; invoked
\* lists the steps whose class was instantiated, failed tells that an
\* exception reached an except clause of run_review_pipeline, absorbed that
\* _create_or_update_ticket logged an exception and returned None
IdleRun ==
    [pc |-> "idle", cfgs |-> <<>>, i |-> 0, ctx |-> <<>>, executed |-> <<>>,
     invoked |-> <<>>, data |-> <<>>, obj |-> <<>>, written |-> FALSE,
     tk |-> <<>>, zero |-> FALSE, llm |-> FALSE, warned |-> FALSE,
     absorbed |-> FALSE, retries |-> 0, countdown |-> 0, failed |-> FALSE, result |-> <<>>,
     review_id |-> 0]

\* PipelineStepConfig.objects.filter(enabled=True).order_by('order'): every
\* order of the enabled rows the database may return
EnabledOrdered(rows) ==
    LET en == SelectSeq(rows, LAMBDA c : c.enabled)
        n == Len(en)
        perms == {q \in [1..n -> 1..n] :
                    /\ \A a, b \in 1..n : a # b => q[a] # q[b]
                    /\ \A a, b \in 1..n : a < b => en[q[a]].order <= en[q[b]].order}
    IN  {[i \in 1..n |-> en[q[i]]] : q \in perms}

In(x, xs) == \E i \in 1..Len(xs) : xs[i] = x

\* the for loop moves to the next config
NextConfig(r) ==
    [r EXCEPT !.i = r.i + 1,
              !.pc = IF r.i + 1 > Len(r.cfgs) THEN "finalize" ELSE "step"]

\* lines 99-100: the step returned
StepReturned(r) ==
    NextConfig([r EXCEPT !.executed = Append(@, r.cfgs[r.i].key)])

\* lines 142-152 without the test of line 146: the job is retried every time
OrchestratorFailedRetries(r) ==
    [r EXCEPT !.pc = "retry", !.failed = TRUE, !.countdown = 60 * (r.retries + 1)]

\* lines 142-152: an exception reached the except clause of run_review_pipeline
OrchestratorFailed(r) ==
    IF r.retries < max_retries
    THEN [r EXCEPT !.pc = "retry", !.failed = TRUE,
                   !.countdown = 60 * (r.retries + 1)]
    ELSE [r EXCEPT !.pc = "done", !.failed = TRUE,
                   !.result = [success |-> FALSE, error |-> "error"]]

\* Review.DoesNotExist handled as any other exception
ReviewMissingRetried(r) == OrchestratorFailed(r)

\* lines 136-141: Review.objects.get raised Review.DoesNotExist
ReviewMissing(r) ==
    [r EXCEPT !.pc = "done", !.failed = TRUE,
              !.result = [success |-> FALSE, error |-> "Review not found"]]

\* lines 101-106, with the exception re-raised instead of logged
StepRaisedAborts(r) == OrchestratorFailed(r)

\* lines 102-106 with the except clause left empty
StepRaisedUnlogged(r) == NextConfig(r)

\* lines 102-106: the step raised
StepRaised(r) ==
    LET step_key == r.cfgs[r.i].key
    IN  NextConfig([r EXCEPT !.ctx = Put(@, step_key \o "_error", "error"),
                             !.executed = Append(@, step_key \o " (error)")])

\* lines 38-43
SeedContext(rv) ==
    [review_id |-> ReviewId, app_name |-> "app", platform |-> "apple",
     rating |-> rv.rating]

\* lines 122-131
Summary(ctx) ==
    [success |-> TRUE,
     review_id |-> ReviewId,
     analysis_result_id |-> Get(ctx, "analysis_result_id", None),
     ticket_id |-> Get(ctx, "ticket_id", None),
     analysis_source |-> Get(ctx, "analysis_source", "local"),
     tone |-> Get(ctx, "tone", None),
     issues_count |-> Len(Get(ctx, "issues", <<>>)),
     gpt_cost |-> Get(ctx, "gpt_cost", None)]

\* lines 70-76
ZeroSummary(analysis_result) ==
    [success |-> TRUE,
     review_id |-> ReviewId,
     analysis_result_id |-> analysis_result.id,
     warning |-> "No enabled pipeline steps configured",
     analysis_source |-> "none"]

\* lines 29-79: the review and the enabled configs are loaded
Loaded(retries, pipeline_steps, now) ==
    IF pipeline_steps = <<>>
    THEN [IdleRun EXCEPT !.pc = "upsert", !.zero = TRUE, !.retries = retries,
                         !.review_id = ReviewId,
                         !.ctx = SeedContext(review),
                         !.data = MinimalData(now)]
    ELSE [IdleRun EXCEPT !.pc = "step", !.i = 1, !.retries = retries,
                         !.review_id = ReviewId,
                         !.cfgs = pipeline_steps,
                         !.ctx = SeedContext(review)]

\* a worker takes a job off the queue (the queue hands it to the first free
\* worker) and executes lines 29-79
StartRun(w) ==
    /\ run[w].pc = "idle"
    /\ \A v \in Workers : v < w => run[v].pc # "idle"
    /\ started < MaxRuns
    /\ started' = started + 1
    /\ clock' = clock + 1
    /\ \E pipeline_steps \in EnabledOrdered(configs) :
          run' = [run EXCEPT ![w] = Loaded(0, pipeline_steps, clock')]
    /\ UNCHANGED <<producers, review, configs, results, tickets, faults, history, env, probe>>

\* a worker takes a job whose review_id names no review: line 31 raises
\* Review.DoesNotExist
NotFound(w) ==
    /\ run[w].pc = "idle"
    /\ \A v \in Workers : v < w => run[v].pc # "idle"
    /\ started < MaxRuns
    /\ started' = started + 1
    /\ run' = [run EXCEPT ![w] = ReviewMissing([IdleRun EXCEPT !.review_id = MissingId])]
    /\ UNCHANGED <<producers, review, configs, results, tickets, clock, faults, history,
                   env, probe>>

\* lines 29-48 raise: the database fails while the review or the configs load
LoadFails(w) ==
    /\ run[w].pc \in {"idle", "retry"}
    /\ \A v \in Workers : v < w => run[v].pc # "idle"
    /\ run[w].pc = "idle" => started < MaxRuns
    /\ started' = IF run[w].pc = "idle" THEN started + 1 ELSE started
    /\ faults < MaxFaults
    /\ faults' = faults + 1
    /\ clock' = clock + 1
    /\ run' = [run EXCEPT ![w] =
                  OrchestratorFailed([IdleRun EXCEPT
                      !.review_id = ReviewId,
                      !.retries = IF run[w].pc = "retry" THEN run[w].retries + 1
                                  ELSE 0])]
    /\ UNCHANGED <<producers, review, configs, results, tickets, history, env, probe>>

\* self.retry: the job is executed again, with request.retries one higher
Retry(w) ==
    /\ run[w].pc = "retry"
    /\ clock' = clock + 1
    /\ \E pipeline_steps \in EnabledOrdered(configs) :
          run' = [run EXCEPT ![w] = Loaded(run[w].retries + 1, pipeline_steps, clock')]
    /\ UNCHANGED <<producers, review, configs, results, tickets, started, faults, history,
                   env, probe>>

AtStep(w) == run[w].pc = "step"

\* lines 88-91: no class is registered under the key
SkipUnregistered(w) ==
    /\ AtStep(w)
    /\ run[w].cfgs[run[w].i].key \notin RegisteredKeys
    /\ run' = [run EXCEPT ![w] = NextConfig(@)]
    /\ UNCHANGED <<producers, review, configs, results, tickets, clock, started, faults,
                   history, env, probe>>

\* lines 94-100 for the three local steps
LocalStep(w) ==
    LET r == run[w]
        key == r.cfgs[r.i].key
    IN  /\ AtStep(w)
        /\ key \in {"tone_detection", "issue_detection", "complexity_check"}
        /\ LET ctx == CASE key = "tone_detection" -> ToneDetection(review, env, r.ctx)
                        [] key = "issue_detection" -> IssueDetection(review, env, r.ctx)
                        [] key = "complexity_check" -> ComplexityCheck(review, env, r.ctx)
           IN  run' = [run EXCEPT ![w] =
                         StepReturned([r EXCEPT !.ctx = ctx,
                                                !.invoked = Append(@, key)])]
        /\ UNCHANGED <<producers, review, configs, results, tickets, clock, started, faults,
                       history, env, probe>>

\* what the LLM call of one run may come to: an exception, or a JSON object
LlmOutcomes ==
    {[ok |-> FALSE],
     [ok |-> TRUE,
      json |-> [tone |-> "Negative",
                issues |-> <<"Problem: login broken">>,
                complex_review |-> "Need review: Mixed sentiments",
                raw_polarity |-> -40,
                notes |-> "User compared to other games",
                confidence |-> 90]],
     [ok |-> TRUE,
      json |-> [issues |-> <<>>, confidence |-> 70]]}

\* lines 94-100 for the LLM step
GptStep(w) ==
    LET r == run[w]
        cfg == r.cfgs[r.i]
    IN  /\ AtStep(w)
        /\ cfg.key = "gpt_analysis"
        /\ \E llm \in LlmOutcomes :
              run' = [run EXCEPT ![w] =
                        StepReturned(
                          [r EXCEPT !.ctx = GptAnalysis(cfg.params, env, r.ctx, llm),
                                    !.invoked = Append(@, cfg.key),
                                    !.llm = @ \/ GptCalls(cfg.params, env, r.ctx)])]
        /\ UNCHANGED <<producers, review, configs, results, tickets, clock, started, faults,
                       history, env, probe>>

\* lines 94-97 and 102-106: the constructor or process of a step raises
RaiseStep(w) ==
    LET r == run[w]
        key == r.cfgs[r.i].key
    IN  /\ AtStep(w)
        /\ key \in RegisteredKeys \ {"persistence"}
        /\ faults < MaxFaults
        /\ faults' = faults + 1
        /\ run' = [run EXCEPT ![w] = StepRaised([r EXCEPT !.invoked = Append(@, key)])]
        /\ UNCHANGED <<producers, review, configs, results, tickets, clock, started,
                       history, env, probe>>

\* PersistenceStep.process, lines 26-57
PersistenceBegin(w) ==
    LET r == run[w]
        key == r.cfgs[r.i].key
        ctx == PersistenceContext(r.ctx)
    IN  /\ AtStep(w)
        /\ key = "persistence"
        /\ run' = [run EXCEPT ![w] =
                      [r EXCEPT !.ctx = ctx,
                                !.invoked = Append(@, key),
                                !.data = AnalysisData(review, ctx, clock),
                                !.pc = "upsert"]]
        /\ UNCHANGED <<producers, review, configs, results, tickets, clock, started, faults,
                       history, env, probe>>

\* PersistenceStep.process, lines 65-76, and run_review_pipeline, lines 70-76:
\* the run after update_or_create returned analysis_result
AfterUpsert(r, analysis_result, created) ==
    IF r.zero
    THEN [r EXCEPT !.obj = analysis_result, !.written = TRUE, !.pc = "done",
                   !.result = ZeroSummary(analysis_result)]
    ELSE LET r1 == [r EXCEPT !.obj = analysis_result, !.written = TRUE,
                             !.ctx = Update(@, [analysis_result_id |-> analysis_result.id,
                                                analysis_created |-> created])]
         IN  IF ShouldCreateTicket(r.cfgs[r.i].params, analysis_result, review.rating)
             THEN [r1 EXCEPT !.pc = "ticket_find"]
             ELSE StepReturned(r1)

\* update_or_create: the row of the review is selected for update and, when
\* there is one, updated
UpsertGet(w) ==
    LET r == run[w]
    IN  /\ r.pc = "upsert"
        /\ IF ReviewTaken(results, ReviewId)
           THEN LET i == RowOf(results, ReviewId)
                    row == UpdatedAnalysisResult(results[i], r.data)
                IN  /\ results' = [results EXCEPT ![i] = row]
                    /\ run' = [run EXCEPT ![w] = AfterUpsert(r, row, FALSE)]
           ELSE /\ run' = [run EXCEPT ![w].pc = "insert"]
                /\ UNCHANGED results
        /\ UNCHANGED <<producers, review, configs, tickets, clock, started, faults,
                       history, env, probe>>

\* update_or_create: no row was found, one is created; when the unique index
\* refuses it (another run created one meanwhile) that row is updated
UpsertInsert(w) ==
    LET r == run[w]
    IN  /\ r.pc = "insert"
        /\ IF UniqueViolation(results, ReviewId)
           THEN LET i == RowOf(results, ReviewId)
                    row == UpdatedAnalysisResult(results[i], r.data)
                IN  /\ results' = [results EXCEPT ![i] = row]
                    /\ run' = [run EXCEPT ![w] = AfterUpsert(r, row, FALSE)]
           ELSE LET row == NewAnalysisResult(Len(results) + 1, r.data, clock)
                IN  /\ results' = Append(results, row)
                    /\ run' = [run EXCEPT ![w] = AfterUpsert(r, row, TRUE)]
        /\ UNCHANGED <<producers, review, configs, tickets, clock, started, faults,
                       history, env, probe>>

\* update_or_create raises (the database fails): inside the Persistence step,
\* or at lines 54-69 when no step is enabled
UpsertRaises(w) ==
    LET r == run[w]
    IN  /\ r.pc \in {"upsert", "insert"}
        /\ faults < MaxFaults
        /\ faults' = faults + 1
        /\ run' = [run EXCEPT ![w] = IF r.zero THEN OrchestratorFailed(r)
                                      ELSE StepRaised(r)]
        /\ UNCHANGED <<producers, review, configs, results, tickets, clock, started,
                       history, env, probe>>

\* _create_or_update_ticket, lines 124-131: the active ticket is looked up
TicketFind(w) ==
    LET r == run[w]
        i == FirstActive(tickets, ReviewId)
    IN  /\ r.pc = "ticket_find"
        /\ run' = [run EXCEPT ![w] =
                      IF i # 0
                      THEN [r EXCEPT !.pc = "ticket_save",
                                     !.tk = [tickets[i] EXCEPT !.analysis_result = r.obj.id]]
                      ELSE [r EXCEPT !.pc = "ticket_create"]]
        /\ UNCHANGED <<producers, review, configs, results, tickets, clock, started, faults,
                       history, env, probe>>

\* existing_ticket.save() after the priority and the notes were computed anew
SavedTicketRecomputed(row, existing_ticket) ==
    LET fresh == NewTicket(row.id, results[RowOf(results, ReviewId)])
    IN  [existing_ticket EXCEPT !.priority = fresh.priority, !.notes = fresh.notes]

\* existing_ticket.save(): every field of the ticket is written as it was read
SavedTicket(row, existing_ticket) == existing_ticket

\* _create_or_update_ticket, lines 132-134, and process, lines 74-76
TicketSave(w) ==
    LET r == run[w]
    IN  /\ r.pc = "ticket_save"
        /\ tickets' = [tickets EXCEPT ![r.tk.id] = SavedTicket(@, r.tk)]
        /\ run' = [run EXCEPT ![w] =
                      StepReturned([r EXCEPT !.ctx = Put(@, "ticket_id", r.tk.id)])]
        /\ UNCHANGED <<producers, review, configs, results, clock, started, faults,
                       history, env, probe>>

\* _create_or_update_ticket, lines 137-147, and process, lines 74-76
TicketCreate(w) ==
    LET r == run[w]
        ticket == NewTicket(Len(tickets) + 1, r.obj)
    IN  /\ r.pc = "ticket_create"
        /\ tickets' = Append(tickets, ticket)
        /\ run' = [run EXCEPT ![w] =
                      StepReturned([r EXCEPT !.ctx = Put(@, "ticket_id", ticket.id)])]
        /\ UNCHANGED <<producers, review, configs, results, clock, started, faults,
                       history, env, probe>>

\* the exception of the ticket leaves PersistenceStep.process
TicketRaisedPropagates(r) == StepRaised(r)

\* _create_or_update_ticket, lines 149-151, and process, lines 74-76: the
\* exception is logged, the ticket is None
TicketRaised(r) ==
    StepReturned([r EXCEPT !.ctx = Put(@, "ticket_id", None), !.absorbed = TRUE])

\* the lookup, the save or the create of the ticket raises (the database
\* fails)
TicketRaises(w) ==
    LET r == run[w]
    IN  /\ r.pc \in {"ticket_find", "ticket_save", "ticket_create"}
        /\ faults < MaxFaults
        /\ faults' = faults + 1
        /\ run' = [run EXCEPT ![w] = TicketRaised(r)]
        /\ UNCHANGED <<producers, review, configs, results, tickets, clock, started,
                       history, env, probe>>

\* lines 113-119: TRUE when the warning is logged
PersistenceMissing(executed_steps, rows) ==
    /\ executed_steps # <<>>
    /\ ~In("persistence", executed_steps)
    /\ ~\E i \in 1..Len(rows) : rows[i].key = "persistence" /\ rows[i].enabled

\* lines 108-134
Finalize(w) ==
    LET r == run[w]
        ctx == Put(r.ctx, "executed_steps", r.executed)
    IN  /\ r.pc = "finalize"
        /\ run' = [run EXCEPT ![w] =
                      [r EXCEPT !.ctx = ctx,
                                !.warned = PersistenceMissing(r.executed, configs),
                                !.result = Summary(ctx),
                                !.pc = "done"]]
        /\ UNCHANGED <<producers, review, configs, results, tickets, clock, started, faults,
                       history, env, probe>>

\* lines 113-116 raise: the database fails at the query for the persistence
\* config
FinalizeFails(w) ==
    LET r == run[w]
    IN  /\ r.pc = "finalize"
        /\ r.executed # <<>> /\ ~In("persistence", r.executed)
        /\ faults < MaxFaults
        /\ faults' = faults + 1
        /\ run' = [run EXCEPT ![w] = OrchestratorFailed(r)]
        /\ UNCHANGED <<producers, review, configs, results, tickets, clock, started,
                       history, env, probe>>

\* what a finished run was given, and the row of the review it leaves
Finished(r) ==
    [cfgs |-> r.cfgs, executed |-> r.executed, llm |-> r.llm,
     written |-> r.written,
     row |-> IF ReviewTaken(results, ReviewId)
             THEN results[RowOf(results, ReviewId)] ELSE <<>>]

\* run_review_pipeline returns its summary and the worker is free again
Finish(w) ==
    /\ run[w].pc = "done"
    /\ history' = IF Len(history) = 2
                  THEN <<history[2], Finished(run[w])>>
                  ELSE Append(history, Finished(run[w]))
    /\ run' = [run EXCEPT ![w] = IdleRun]
    /\ UNCHANGED <<producers, review, configs, results, tickets, clock, started, faults,
                   env, probe>>

WorkerNext(w) ==
    \/ StartRun(w)
    \/ NotFound(w)
    \/ LoadFails(w)
    \/ Retry(w)
    \/ SkipUnregistered(w)
    \/ LocalStep(w)
    \/ GptStep(w)
    \/ RaiseStep(w)
    \/ PersistenceBegin(w)
    \/ UpsertGet(w)
    \/ UpsertInsert(w)
    \/ UpsertRaises(w)
    \/ TicketFind(w)
    \/ TicketSave(w)
    \/ TicketCreate(w)
    \/ TicketRaises(w)
    \/ Finalize(w)
    \/ FinalizeFails(w)
    \/ Finish(w)

-----------------------------------------------------------------------------
(* The operator (the admin site) *)

\* init_pipeline_steps.DEFAULT_PIPELINE_CONFIG
DefaultConfig ==
    <<[key |-> "tone_detection", label |-> "Tone Detection", enabled |-> TRUE,
       order |-> 10, params |-> <<>>],
      [key |-> "issue_detection", label |-> "Issue Detection", enabled |-> TRUE,
       order |-> 20, params |-> <<>>],
      [key |-> "complexity_check", label |-> "Complexity Check", enabled |-> TRUE,
       order |-> 30, params |-> <<>>],
      [key |-> "gpt_analysis", label |-> "GPT Analysis", enabled |-> TRUE,
       order |-> 40,
       params |-> [model |-> "gpt-4o-mini", prompt_id |-> "default_review_analysis",
                   skip_if_simple |-> TRUE]],
      [key |-> "persistence", label |-> "Persistence", enabled |-> TRUE,
       order |-> 50,
       params |-> [auto_ticket_for_problems |-> TRUE,
                   auto_ticket_for_complex |-> TRUE,
                   ticket_only_for_negative |-> FALSE]]>>

\* the rows with those of the given keys disabled
Disabled(rows, keys) ==
    [i \in 1..Len(rows) |->
        IF rows[i].key \in keys THEN [rows[i] EXCEPT !.enabled = FALSE] ELSE rows[i]]

\* the rows with the params of the given key changed
WithParams(rows, key, params) ==
    [i \in 1..Len(rows) |->
        IF rows[i].key = key THEN [rows[i] EXCEPT !.params = params] ELSE rows[i]]

\* the rows with the order of the given key changed
WithOrder(rows, key, order) ==
    [i \in 1..Len(rows) |->
        IF rows[i].key = key THEN [rows[i] EXCEPT !.order = order] ELSE rows[i]]

\* a row of a step type whose key no class is registered under
SummaryRow ==
    [key |-> "summary", label |-> "Summary", enabled |-> TRUE,
     order |-> 20, params |-> <<>>]

\* the configurations the operator chooses among; in the fifth two registered
\* steps have the same order and a row names an unregistered key, in the
\* sixth that row is the only one enabled
ConfigChoices ==
    {DefaultConfig,
     Disabled(DefaultConfig, RegisteredKeys),
     Disabled(DefaultConfig, {"issue_detection", "complexity_check", "gpt_analysis"}),
     Disabled(WithParams(DefaultConfig, "persistence",
                         [auto_ticket_for_problems |-> TRUE,
                          auto_ticket_for_complex |-> FALSE,
                          ticket_only_for_negative |-> TRUE]),
              {"gpt_analysis"}),
     Append(WithOrder(Disabled(DefaultConfig, {"persistence", "complexity_check"}),
                      "issue_detection", 10),
            SummaryRow),
     Append(Disabled(DefaultConfig, RegisteredKeys), SummaryRow)}

\* PipelineStepConfigAdmin: the operator edits the configuration
Reconfigure ==
    /\ \E c \in ConfigChoices \ {configs} : configs' = c
    /\ UNCHANGED <<producers, review, results, tickets, run, clock, started, faults,
                   history, env, probe>>

\* ReviewTicketAdmin.mark_as_closed
MarkAsClosed ==
    /\ \E t \in 1..Len(tickets) :
          /\ tickets[t].status # "closed"
          /\ tickets' = [tickets EXCEPT ![t].status = "closed"]
    /\ UNCHANGED <<producers, review, configs, results, run, clock, started, faults,
                   history, env, probe>>

\* ReviewTicketAdmin.mark_as_in_progress
MarkAsInProgress ==
    /\ \E t \in 1..Len(tickets) :
          /\ tickets[t].status # "in_progress"
          /\ tickets' = [tickets EXCEPT ![t].status = "in_progress"]
    /\ UNCHANGED <<producers, review, configs, results, run, clock, started, faults,
                   history, env, probe>>

-----------------------------------------------------------------------------
(* The producers of jobs.  A worker of the specifications above takes the
   jobs any of them has sent; here the messages themselves are followed. *)

\* str(instance.id)
Str(id) == CASE id = ReviewId -> "1" [] id = MissingId -> "2"

\* run_review_pipeline.apply_async(args=[review_id], queue='analysis')
Job(review_id) ==
    [task |-> "run_review_pipeline", args |-> <<review_id>>, queue |-> "analysis"]

NoSignal == [instance |-> 0, created |-> FALSE, raised |-> FALSE]

NoBatch == [pc |-> "idle"]

\* the handler with the test of created left out
SendAlways(q, instance, created) == Append(q, Job(Str(instance)))

\* trigger_review_analysis: the queue after the handler returned
TriggerReviewAnalysis(q, instance, created) ==
    IF created THEN Append(q, Job(Str(instance))) ELSE q

\* Review.save(): the row is inserted or updated, post_save is sent and its
\* handler returns
ReviewSave ==
    /\ Len(queue) < MaxQueue
    /\ \E instance \in {ReviewId, MissingId} :
          LET created == instance \notin stored
          IN  /\ stored' = stored \cup {instance}
              /\ post_save' = [instance |-> instance, created |-> created,
                               raised |-> FALSE]
              /\ queue' = TriggerReviewAnalysis(queue, instance, created)
    /\ UNCHANGED <<review, configs, results, tickets, run, clock, started,
                   faults, history, env, probe, batch>>

\* Review.save() of a new review while the broker is down: apply_async raises
\* out of the handler, after the row was inserted
ReviewSaveRaises ==
    /\ \E instance \in {ReviewId, MissingId} :
          /\ instance \notin stored
          /\ stored' = stored \cup {instance}
          /\ post_save' = [instance |-> instance, created |-> TRUE, raised |-> TRUE]
    /\ UNCHANGED <<review, configs, results, tickets, run, clock, started,
                   faults, history, env, probe, queue, batch>>

\* reanalyze_reviews, lines 167-174
ReanalyzeStart ==
    /\ batch.pc = "idle"
    /\ \E review_ids \in UNION {[1..k -> {"1", "2"}] : k \in 0..MaxBatch} :
          batch' = [pc |-> "loop", review_ids |-> review_ids, i |-> 1,
                    results |-> [total |-> Len(review_ids), successful |-> 0,
                                 failed |-> 0, errors |-> <<>>]]
    /\ UNCHANGED <<review, configs, results, tickets, run, clock, started,
                   faults, history, env, probe, queue, stored, post_save>>

\* lines 184-188, should the exception end the loop
EnqueueFailedEnds(b) ==
    [b EXCEPT !.pc = "returned",
              !.results.failed = @ + 1,
              !.results.errors = Append(@, [review_id |-> b.review_ids[b.i],
                                            error |-> "error"])]

\* lines 183-188: apply_async raised
EnqueueFailed(b) ==
    [b EXCEPT !.i = @ + 1,
              !.results.failed = @ + 1,
              !.results.errors = Append(@, [review_id |-> b.review_ids[b.i],
                                            error |-> "error"])]

\* lines 176-182: the job of the next id is sent
ReanalyzeEnqueue ==
    /\ batch.pc = "loop" /\ batch.i <= Len(batch.review_ids)
    /\ queue' = Append(queue, Job(batch.review_ids[batch.i]))
    /\ batch' = [batch EXCEPT !.i = @ + 1, !.results.successful = @ + 1]
    /\ UNCHANGED <<review, configs, results, tickets, run, clock, started,
                   faults, history, env, probe, stored, post_save>>

\* lines 176-188: apply_async raises for the next id
ReanalyzeEnqueueFails ==
    /\ batch.pc = "loop" /\ batch.i <= Len(batch.review_ids)
    /\ batch' = EnqueueFailed(batch)
    /\ UNCHANGED <<review, configs, results, tickets, run, clock, started,
                   faults, history, env, probe, queue, stored, post_save>>

\* line 190
ReanalyzeReturn ==
    /\ batch.pc = "loop" /\ batch.i > Len(batch.review_ids)
    /\ batch' = [batch EXCEPT !.pc = "returned"]
    /\ UNCHANGED <<review, configs, results, tickets, run, clock, started,
                   faults, history, env, probe, queue, stored, post_save>>

-----------------------------------------------------------------------------
(* The reviews analysed, with what the NLP libraries compute on each *)

GreatGame ==
    [rating |-> 5, polarity |-> 66, subjectivity |-> 75,
     issues |-> <<>>, extra |-> <<>>,
     sentences |-> 1, spread |-> 0, words |-> 2, diversity |-> 100,
     complex_pos |-> 2, simple_stmt |-> FALSE, max_freq |-> 50, non_alpha |-> 9,
     pos_hits |-> 1, neg_hits |-> 0]

HiddenIssue ==
    [rating |-> 5, polarity |-> 42, subjectivity |-> 60,
     issues |-> <<"Problem: crash (high severity)">>, extra |-> <<>>,
     sentences |-> 1, spread |-> 0, words |-> 9, diversity |-> 55,
     complex_pos |-> 5, simple_stmt |-> FALSE, max_freq |-> 11, non_alpha |-> 2,
     pos_hits |-> 1, neg_hits |-> 0]

CrashAndRequest ==
    [rating |-> 2, polarity |-> -25, subjectivity |-> 50,
     issues |-> <<"Problem: crash (high severity)", "Request: multiplayer (feature)">>,
     extra |-> <<>>,
     sentences |-> 1, spread |-> 0, words |-> 7, diversity |-> 57,
     complex_pos |-> 4, simple_stmt |-> FALSE, max_freq |-> 14, non_alpha |-> 2,
     pos_hits |-> 0, neg_hits |-> 0]

Sarcastic ==
    [rating |-> 4, polarity |-> -45, subjectivity |-> 70,
     issues |-> <<"Problem: bug/glitch (medium severity)",
                  "Problem: save/progress (critical severity)">>,
     extra |-> <<"Problem: terrible bug">>,
     sentences |-> 2, spread |-> 120, words |-> 12, diversity |-> 66,
     complex_pos |-> 7, simple_stmt |-> FALSE, max_freq |-> 8, non_alpha |-> 3,
     pos_hits |-> 1, neg_hits |-> 1]

Furious ==
    [rating |-> 1, polarity |-> -85, subjectivity |-> 90,
     issues |-> <<"Problem: save/progress (critical severity)",
                  "Problem: save/progress (critical severity)",
                  "Problem: save/progress (critical severity)">>,
     extra |-> <<>>,
     sentences |-> 3, spread |-> 40, words |-> 20, diversity |-> 40,
     complex_pos |-> 9, simple_stmt |-> FALSE, max_freq |-> 15, non_alpha |-> 4,
     pos_hits |-> 0, neg_hits |-> 2]

Scenarios ==
    {[review |-> GreatGame,
      env |-> [vader |-> TRUE, nlp |-> TRUE, nlp_issue |-> TRUE, api_key |-> TRUE]],
     [review |-> HiddenIssue,
      env |-> [vader |-> TRUE, nlp |-> TRUE, nlp_issue |-> TRUE, api_key |-> FALSE]],
     [review |-> CrashAndRequest,
      env |-> [vader |-> FALSE, nlp |-> FALSE, nlp_issue |-> FALSE, api_key |-> FALSE]],
     [review |-> Sarcastic,
      env |-> [vader |-> TRUE, nlp |-> TRUE, nlp_issue |-> TRUE, api_key |-> TRUE]],
     [review |-> Furious,
      env |-> [vader |-> TRUE, nlp |-> FALSE, nlp_issue |-> TRUE, api_key |-> FALSE]]}

-----------------------------------------------------------------------------
(* The specifications *)

\* the state before the first run; scenarios are the reviews to choose among
InitWith(scenarios) ==
    /\ \E s \in scenarios : review = s.review /\ env = s.env
    /\ configs = DefaultConfig
    /\ results = <<>>
    /\ tickets = <<>>
    /\ run = [w \in Workers |-> IdleRun]
    /\ clock = 0
    /\ started = 0
    /\ faults = 0
    /\ history = <<>>
    /\ probe = [kind |-> "none"]
    /\ queue = <<>>
    /\ stored = {ReviewId}
    /\ post_save = NoSignal
    /\ batch = NoBatch

Init == InitWith(Scenarios)

Operator == Reconfigure \/ MarkAsClosed \/ MarkAsInProgress

\* one worker, whose runs follow each other, and the operator
Next == WorkerNext(1) \/ Operator

Spec == Init /\ [][Next]_vars

\* two workers: runs of the same review overlap in every interleaving of
\* their database statements
ConcInit == InitWith({s \in Scenarios : s.review \in {HiddenIssue}})

ConcNext == (\E w \in Workers : WorkerNext(w)) \/ Reconfigure

SpecConc == ConcInit /\ [][ConcNext]_vars

-----------------------------------------------------------------------------
(* The operator re-runs the analysis of tickets and reopens them *)

\* reanalyze_reviews.delay(review_ids): the message of the batch
BatchJob(review_ids) ==
    [task |-> "reanalyze_reviews", args |-> <<review_ids>>, queue |-> "celery"]

\* ReviewTicketAdmin.reanalyze_and_reopen on the selected tickets: the batch
\* of their review ids is sent, then every one of them is set to open
ReanalyzeAndReopen ==
    /\ Len(queue) < MaxQueue
    /\ \E queryset \in SUBSET (1..Len(tickets)) \ {{}} :
          LET review_ids == [k \in 1..Cardinality(queryset) |-> Str(ReviewId)]
          IN  /\ queue' = Append(queue, BatchJob(review_ids))
              /\ tickets' = [t \in 1..Len(tickets) |->
                               IF t \in queryset
                               THEN [tickets[t] EXCEPT !.status = "open"]
                               ELSE tickets[t]]
    /\ UNCHANGED <<review, configs, results, run, clock, started, faults,
                   history, env, probe, stored, post_save, batch>>

ReopenInit == InitWith({s \in Scenarios : s.review \in {HiddenIssue}})

\* one worker, whose runs follow each other, and an operator who edits the
\* configuration, closes tickets and re-runs their analysis
ReopenNext == WorkerNext(1) \/ Reconfigure \/ MarkAsClosed \/ ReanalyzeAndReopen

SpecReopen == ReopenInit /\ [][ReopenNext]_vars

-----------------------------------------------------------------------------
(* Jobs while the database is down: only the Tone Detection step is enabled,
   so the steps below are all a job can take, and the database may fail more
   often than a job is retried *)

ToneOnly ==
    Disabled(DefaultConfig,
             {"issue_detection", "complexity_check", "gpt_analysis", "persistence"})

\* the failures of the outage: enough to exhaust the retries of a job
Outage == max_retries + 2

RetryInit ==
    /\ \E s \in Scenarios : review = s.review /\ env = s.env
    /\ configs = ToneOnly
    /\ results = <<>>
    /\ tickets = <<>>
    /\ run = [w \in Workers |-> IdleRun]
    /\ clock = 0
    /\ started = 0
    /\ faults = MaxFaults - Outage
    /\ history = <<>>
    /\ probe = [kind |-> "none"]
    /\ queue = <<>>
    /\ stored = {ReviewId}
    /\ post_save = NoSignal
    /\ batch = NoBatch

RetryNext ==
    \/ StartRun(1)
    \/ NotFound(1)
    \/ LoadFails(1)
    \/ Retry(1)
    \/ LocalStep(1)
    \/ RaiseStep(1)
    \/ Finalize(1)
    \/ FinalizeFails(1)
    \/ Finish(1)

\* a worker that has a job goes on with it
SpecRetry == RetryInit /\ [][RetryNext]_vars /\ WF_vars(RetryNext)

-----------------------------------------------------------------------------
(* The table of reviews is empty and nothing was sent yet *)

QueueInit ==
    /\ \E s \in Scenarios : s.review = GreatGame /\ review = s.review /\ env = s.env
    /\ configs = DefaultConfig
    /\ results = <<>>
    /\ tickets = <<>>
    /\ run = [w \in Workers |-> IdleRun]
    /\ clock = 0
    /\ started = 0
    /\ faults = 0
    /\ history = <<>>
    /\ probe = [kind |-> "none"]
    /\ queue = <<>>
    /\ stored = {}
    /\ post_save = NoSignal
    /\ batch = NoBatch

QueueNext ==
    \/ ReviewSave
    \/ ReviewSaveRaises
    \/ ReanalyzeStart
    \/ ReanalyzeEnqueue
    \/ ReanalyzeEnqueueFails
    \/ ReanalyzeReturn

SpecQueue == QueueInit /\ [][QueueNext]_vars

-----------------------------------------------------------------------------
(* The decision and the priority of a ticket, over their whole domain *)

SeqsUpTo(S, n) == UNION {[1..k -> S] : k \in 0..n}

Ratings == 1..5

Tones == {"very_negative", "negative", "neutral", "positive", "very_positive"}

\* the params of the persistence config: the dict may lack every key
ParamChoices ==
    [auto_ticket_for_problems : BOOLEAN, auto_ticket_for_complex : BOOLEAN,
     ticket_only_for_negative : BOOLEAN] \cup {<<>>}

TicketIssues == {"Problem: Crashes", "Request: Dark mode",
                 "No specific issues detected"}

PriorityIssues == {"Problem: critical data loss", "Problem: HIGH battery drain",
                   "Request: medium contrast", "Problem: slow loading",
                   "Problem: Crashes", "Problem: CRITICAL at low battery"}

\* an AnalysisResult as _should_create_ticket and _calculate_priority read it
ProbeResult(tone, issues, complex_review, flag_support) ==
    [id |-> 1, tone |-> tone, issues |-> issues,
     complex_review |-> complex_review, flag_support |-> flag_support]

\* _should_create_ticket is called
ProbeTicket ==
    /\ probe.kind = "none"
    /\ \E rating \in Ratings, tone \in Tones,
          issues \in SeqsUpTo(TicketIssues, MaxProbeIssues),
          complex_review \in {None, "Sarcasm detected"},
          flag_support \in {None, HiddenIssueFlag},
          params \in ParamChoices :
          LET analysis_result == ProbeResult(tone, issues, complex_review, flag_support)
          IN  probe' = [kind |-> "ticket", params |-> params, rating |-> rating,
                        analysis_result |-> analysis_result,
                        result |-> ShouldCreateTicket(params, analysis_result, rating)]
    /\ UNCHANGED <<producers, review, configs, results, tickets, run, clock, started,
                   faults, history, env>>

\* ReviewTicket.objects.create(..., priority=self._calculate_priority(...))
ProbePriority ==
    /\ probe.kind = "none"
    /\ \E tone \in Tones, issues \in SeqsUpTo(PriorityIssues, MaxIssues),
          complex_review \in {None, "Sarcasm detected"},
          flag_support \in {None, HiddenIssueFlag} :
          LET analysis_result == ProbeResult(tone, issues, complex_review, flag_support)
          IN  probe' = [kind |-> "priority", analysis_result |-> analysis_result,
                        result |-> NewTicket(1, analysis_result).priority]
    /\ UNCHANGED <<producers, review, configs, results, tickets, run, clock, started,
                   faults, history, env>>

\* the polarities VADER's compound score and the fallback can take, in
\* hundredths
Polarities == -100..100

\* ToneDetectionStep.process computes the tone of a review: its polarity is
\* VADER's compound score, or the rating-based fallback when VADER is missing
ProbeTone ==
    /\ probe.kind = "none"
    /\ \E rating \in Ratings, polarity \in Polarities, vader \in BOOLEAN :
          LET rv == [GreatGame EXCEPT !.rating = rating, !.polarity = polarity]
              ctx == ToneDetection(rv, [env EXCEPT !.vader = vader], SeedContext(rv))
          IN  probe' = [kind |-> "tone", rating |-> rating, polarity |-> polarity,
                        vader |-> vader,
                        raw_polarity |-> ctx["raw_polarity"],
                        result |-> ctx["tone"]]
    /\ UNCHANGED <<producers, review, configs, results, tickets, run, clock,
                   started, faults, history, env>>

\* the params of the gpt_analysis config
GptParamChoices == {<<>>, [skip_if_simple |-> TRUE], [skip_if_simple |-> FALSE]}

\* the contexts the LLM step may be given: the seed keys and what the local
\* steps that ran before it left
GptContexts ==
    LET seed == SeedContext(GreatGame)
        tones == {seed} \cup {Put(seed, "tone", t) : t \in Tones}
        flags == tones \cup {Put(c, "skip_gpt", b) : c \in tones, b \in BOOLEAN}
    IN  flags \cup {Put(c, "complex_review", v) :
                       c \in flags,
                       v \in {None, "", "Need review: Mixed sentiments"}}

\* the tone labels the LLM may answer with
ToneLabels == {"Very Negative", "Negative", "Neutral", "Positive", "Very Positive",
               "very negative", "very positive", "NEGATIVE", "negative",
               "positive", "Very positive", "Mixed"}

\* what the LLM call may come to: an exception, a JSON object with a tone
\* label, or one without the tone field
GptReplies ==
    {[ok |-> FALSE], [ok |-> TRUE, json |-> [confidence |-> 70]]}
    \cup {[ok |-> TRUE, json |-> [tone |-> l, confidence |-> 90]] : l \in ToneLabels}

\* GPTAnalysisStep.process is called
ProbeGpt ==
    /\ probe.kind = "none"
    /\ \E params \in GptParamChoices, api_key \in BOOLEAN,
          ctx \in GptContexts, llm \in GptReplies :
          probe' = [kind |-> "gpt", params |-> params, api_key |-> api_key,
                    context |-> ctx, llm |-> llm,
                    result |-> GptAnalysis(params, [env EXCEPT !.api_key = api_key],
                                           ctx, llm)]
    /\ UNCHANGED <<producers, review, configs, results, tickets, run, clock,
                   started, faults, history, env>>

\* polarities on both sides of every threshold of _is_complex
ComplexPolarities == {-100, -71, -70, -69, -31, -30, -29, -21, -20, 0,
                      20, 21, 29, 30, 31, 69, 70, 71, 100}

\* ComplexityCheckStep.process is called on a review of the given rating,
\* after a tone detection that left the given polarity and subjectivity and,
\* when spaCy is installed, the parsed document; without spaCy the
\* subjectivity is the default 0.5
ProbeComplexity ==
    /\ probe.kind = "none"
    /\ \E rating \in Ratings, polarity \in ComplexPolarities,
          subjectivity \in {40, 41, 50}, doc \in BOOLEAN, vader \in BOOLEAN,
          sentences \in {1, 2}, spread \in {100, 101}, words \in {4, 5},
          skip \in {None, "True"} :
          /\ doc \/ subjectivity = 50
          /\ LET rv == [GreatGame EXCEPT !.rating = rating, !.sentences = sentences,
                                      !.spread = spread, !.words = words]
                 seed == Update(SeedContext(rv), [raw_polarity |-> polarity,
                                                  raw_subjectivity |-> subjectivity])
                 ctx0 == IF doc THEN Put(seed, "nlp_doc", "doc") ELSE seed
                 ctx == IF skip = None THEN ctx0 ELSE Put(ctx0, "skip_gpt", TRUE)
             IN  probe' = [kind |-> "complexity", review |-> rv, doc |-> doc,
                           vader |-> vader, context |-> ctx,
                           result |-> ComplexityCheck(rv, [env EXCEPT !.vader = vader],
                                                      ctx)]
    /\ UNCHANGED <<producers, review, configs, results, tickets, run, clock,
                   started, faults, history, env>>

\* the lists positive_words and negative_words have eight words each
KeywordCount == 8

\* ToneDetectionStep.process without VADER, then ComplexityCheckStep.process,
\* on a review in which the given numbers of keywords occur
ProbeFallback ==
    /\ probe.kind = "none"
    /\ \E rating \in Ratings, pos_hits \in 0..KeywordCount,
          neg_hits \in 0..KeywordCount, nlp \in BOOLEAN, sentences \in {1, 2} :
          LET rv == [GreatGame EXCEPT !.rating = rating, !.pos_hits = pos_hits,
                                      !.neg_hits = neg_hits, !.sentences = sentences]
              e == [env EXCEPT !.vader = FALSE, !.nlp = nlp]
              toned == ToneDetection(rv, e, SeedContext(rv))
          IN  probe' = [kind |-> "fallback", review |-> rv,
                        unclamped |-> 35 * (rating - 3) + 3 * (pos_hits - neg_hits),
                        result |-> ComplexityCheck(rv, e, toned)]
    /\ UNCHANGED <<producers, review, configs, results, tickets, run, clock,
                   started, faults, history, env>>

FnInit == InitWith({s \in Scenarios : s.review \in {GreatGame}})

FnNext == ProbeTicket \/ ProbePriority \/ ProbeTone \/ ProbeGpt
          \/ ProbeComplexity \/ ProbeFallback

SpecFn == FnInit /\ [][FnNext]_vars

-----------------------------------------------------------------------------
(* Properties *)

AllRegistered(cfgs) == \A i \in 1..Len(cfgs) : cfgs[i].key \in RegisteredKeys

KeysOf(cfgs) == [i \in 1..Len(cfgs) |-> cfgs[i].key]

\* the run is inside the step loop, lines 82-106
InLoop(r) == ~r.zero /\ r.pc \notin {"idle", "retry", "finalize", "done"}

\* C1: a run over enabled configs whose keys are all registered that returns
\* has invoked the step of every config exactly once and in list order,
\* whether or not an earlier step raised, and returns success=true; nothing
\* that happens inside the step loop schedules a retry of the job or ends it
\* with a failure
C1_EveryStepInvokedInOrder ==
    /\ [](\A w \in Workers :
            (run[w].pc = "done" /\ ~run[w].failed /\ ~run[w].zero
                /\ AllRegistered(run[w].cfgs))
            => /\ run[w].invoked = KeysOf(run[w].cfgs)
               /\ run[w].result.success = TRUE)
    /\ [][\A w \in Workers :
            InLoop(run[w]) => run'[w].pc # "retry" /\ ~run'[w].failed]_vars

\* a run has returned in which a step raised and a later step was invoked
C1_Witness ==
    \E w \in Workers :
        /\ run[w].pc = "done" /\ ~run[w].failed /\ ~run[w].zero
        /\ AllRegistered(run[w].cfgs)
        /\ \E i \in 1..Len(run[w].executed) :
              /\ i < Len(run[w].executed)
              /\ run[w].executed[i] = run[w].cfgs[i].key \o " (error)"
              /\ run[w].executed[Len(run[w].executed)] = "persistence"

RowsOfReview == {i \in 1..Len(results) : results[i].review = ReviewId}

\* C2: after any interleaving of runs, the zero-enabled-steps path included,
\* the review has at most one AnalysisResult row
C2_OneResultPerReview == Cardinality(RowsOfReview) <= 1

\* two runs overlap, both have written the result of the review, and the
\* second to insert was refused by the unique index
C2_Witness ==
    /\ run[1].written /\ run[2].written
    /\ run[1].obj.id = run[2].obj.id
    /\ \E w \in Workers : run[w].ctx # <<>> /\ Get(run[w].ctx, "analysis_created", TRUE) = FALSE
    /\ Len(results) = 1

ActiveTickets == {i \in 1..Len(tickets) : tickets[i].review = ReviewId /\ IsActive(tickets[i])}

\* C3: in every reachable state the review has at most one ticket that is
\* open or in_progress, also when two runs create or update its ticket
\* concurrently
C3_OneActiveTicket == Cardinality(ActiveTickets) <= 1

AnalysisFields == {"tone", "raw_polarity", "raw_subjectivity", "issues",
                   "complex_review", "notes", "confidence", "analysis_source",
                   "flag_support"}

\* C4: the row a run has written holds, in every analysis field, what that
\* run gave it, and null where the run gave nothing
C4_ResultReplaced ==
    \A w \in Workers :
        run[w].written =>
            \A f \in AnalysisFields :
                run[w].obj[f] = IF f \in DOMAIN run[w].data THEN run[w].data[f]
                                ELSE None

\* the last two runs had the same enabled configs, the same outcome of every
\* step, no LLM call, and each wrote the result
TwiceTheSame ==
    /\ Len(history) = 2
    /\ history[1].cfgs = history[2].cfgs
    /\ history[1].executed = history[2].executed
    /\ ~history[1].llm /\ ~history[2].llm
    /\ history[1].written /\ history[2].written

\* the row without the time of the run in its payload
Unstamped(row) ==
    [row EXCEPT !.full_payload =
        [k \in DOMAIN row.full_payload \ {"processing_timestamp"} |-> row.full_payload[k]]]

C6_NoEnabledSteps ==
    /\ [](\A w \in Workers :
            run[w].zero =>
                /\ run[w].invoked = <<>> /\ run[w].executed = <<>>
                /\ (run[w].pc = "done" /\ ~run[w].failed) =>
                      /\ run[w].written
                      /\ run[w].obj.tone = "neutral"
                      /\ run[w].obj.analysis_source = "none"
                      /\ run[w].obj.confidence = 0
                      /\ run[w].obj.issues = <<"No analysis performed - all steps disabled">>
                      /\ results[RowOf(results, ReviewId)] = run[w].obj
                      /\ run[w].result.success = TRUE
                      /\ "warning" \in DOMAIN run[w].result)
    /\ [][\A w \in Workers :
            (run'[w].zero /\ run'[w] # run[w]) => tickets' = tickets]_vars

\* a run with no enabled config has returned, over the result and the ticket
\* an earlier run left
C6_Witness ==
    \E w \in Workers :
        /\ run[w].zero /\ run[w].pc = "done" /\ run[w].written
        /\ run[w].obj.analysis_timestamp < run[w].obj.full_payload.processing_timestamp
        /\ Len(tickets) = 1

\* the decision as the contract words it
StatedDecision(params, analysis_result, rating) ==
    \/ /\ \E i \in 1..Len(analysis_result.issues) :
             Contains(analysis_result.issues[i], "Problem:")
       /\ params.auto_ticket_for_problems
       /\ \/ ~params.ticket_only_for_negative
          \/ rating <= 3
          \/ analysis_result.tone \in {"negative", "very_negative"}
    \/ analysis_result.complex_review # None /\ params.auto_ticket_for_complex
    \/ analysis_result.flag_support # None

\* C7: for every rating, tone, issue list, complex_review, flag_support and
\* value of the three params, _should_create_ticket is true exactly when the
\* stated condition is
C7_TicketDecision ==
    (probe.kind = "ticket" /\ DOMAIN probe.params # {}) =>
        probe.result = StatedDecision(probe.params, probe.analysis_result, probe.rating)

\* the case of C8: both params on, rating 5, positive tone, no complex_review,
\* a Problem issue
HiddenProblemCase ==
    /\ probe.kind = "ticket" /\ DOMAIN probe.params # {}
    /\ probe.params.auto_ticket_for_problems
    /\ probe.params.ticket_only_for_negative
    /\ probe.rating = 5
    /\ probe.analysis_result.tone = "positive"
    /\ probe.analysis_result.complex_review = None
    /\ AnyContains(probe.analysis_result.issues, "Problem:")

\* C8: with auto_ticket_for_problems and ticket_only_for_negative on, for a
\* review of rating 5, positive tone, no complex_review and a Problem issue,
\* the decision is to create or update a ticket exactly when flag_support
\* is set
C8_SupportFlagOverridesGate ==
    HiddenProblemCase => probe.result = (probe.analysis_result.flag_support # None)

\* the case was decided without the flag, and no ticket is due
C8_Witness ==
    /\ HiddenProblemCase
    /\ probe.analysis_result.flag_support = None
    /\ probe.result = FALSE

\* the weights as the contract words them
StatedToneWeight(tone) ==
    CASE tone = "very_negative" -> 3
      [] tone = "negative" -> 2
      [] tone = "neutral" -> 1
      [] tone \in {"positive", "very_positive"} -> 0

StatedSeverity(issue) ==
    LET weights == {IF Contains(Lower(issue), "critical") THEN 4 ELSE 0,
                    IF Contains(Lower(issue), "high") THEN 3 ELSE 0,
                    IF Contains(Lower(issue), "medium") THEN 2 ELSE 0,
                    IF Contains(Lower(issue), "low") THEN 1 ELSE 0}
    IN  CHOOSE m \in weights : \A x \in weights : x <= m

RECURSIVE StatedSeveritySum(_)
StatedSeveritySum(issues) ==
    IF issues = <<>> THEN 0
    ELSE StatedSeverity(Head(issues)) + StatedSeveritySum(Tail(issues))

StatedSum(analysis_result) ==
    StatedToneWeight(analysis_result.tone)
    + StatedSeveritySum(analysis_result.issues)
    + (IF analysis_result.flag_support # None THEN 2 ELSE 0)
    + (IF analysis_result.complex_review # None THEN 1 ELSE 0)

\* C9: the priority of a newly created ticket is min(10, tone weight + sum of
\* the severity weights of the issues + 2 for the support flag + 1 for the
\* complex reason), hence within 0..10
C9_PriorityClamped ==
    probe.kind = "priority" =>
        /\ probe.result = Min(10, StatedSum(probe.analysis_result))
        /\ probe.result \in 0..10

\* very_negative, three critical issues, support flag and complex reason: the
\* sum is 18 and the priority 10
C9_Witness ==
    /\ probe.kind = "priority"
    /\ Len(probe.analysis_result.issues) = 3
    /\ StatedSum(probe.analysis_result) = 18
    /\ probe.result = 10

\* C10: no step of a pipeline run changes the status of a ticket that exists
C10_StatusKept ==
    [][run' # run =>
         \A t \in 1..Len(tickets) : tickets'[t].status = tickets[t].status]_vars

\* C11: when a run whose result is ticket-worthy looks for the ticket of a
\* review that has an open or in_progress one, it takes that ticket (the
\* database answering); saving it
\* leaves the number of tickets unchanged and the ticket pointing at the
\* result the run stored, and the summary of the run carries the id of that
\* ticket
C11_ActiveTicketRepointed ==
    /\ [][\A w \in Workers :
            /\ (run[w].pc = "ticket_find" /\ ActiveTickets # {} /\ run'[w] # run[w]
                  /\ faults' = faults)
               => /\ run'[w].pc = "ticket_save"
                  /\ run'[w].tk.id \in ActiveTickets
            /\ (run[w].pc = "ticket_save" /\ run'[w] # run[w] /\ faults' = faults)
               => /\ Len(tickets') = Len(tickets)
                  /\ tickets'[run[w].tk.id].analysis_result = run[w].obj.id
                  /\ results[RowOf(results, ReviewId)].id = run[w].obj.id
                  /\ \A t \in 1..Len(tickets) :
                        t # run[w].tk.id => tickets'[t] = tickets[t]]_vars
    /\ [](\A w \in Workers :
            (run[w].pc = "done" /\ ~run[w].failed /\ run[w].tk # <<>>
                /\ ~run[w].absorbed)
            => run[w].result.ticket_id = run[w].tk.id)

\* a run has returned that found the ticket an earlier run had created
C11_Witness ==
    \E w \in Workers :
        /\ run[w].pc = "done" /\ run[w].tk # <<>> /\ ~run[w].absorbed
        /\ Len(history) >= 1
        /\ Len(tickets) = 1
        /\ tickets[1].analysis_result = run[w].obj.id

LocalAnalysisKeys == {"tone", "issues", "complex_review", "raw_polarity", "notes",
                     "confidence"}

\* the step that ends is the LLM step and it recorded an error of the LLM
LlmFailed(r, r1) ==
    /\ r.pc = "step" /\ r.cfgs[r.i].key = "gpt_analysis"
    /\ r1.i = r.i + 1
    /\ "gpt_error" \in DOMAIN r1.ctx

\* C12: when the prompt lookup, the LLM call or the parsing of the reply
\* raises inside the LLM step, the step returns normally: tone, issues,
\* complex_review, raw_polarity, notes and confidence are in the context as
\* they were, the error is under gpt_error, analysis_source is local, and the
\* run goes on to the next step
C12_LlmFailureKeepsLocal ==
    [][\A w \in Workers :
         LlmFailed(run[w], run'[w]) =>
            /\ \A k \in LocalAnalysisKeys :
                  /\ k \in DOMAIN run'[w].ctx <=> k \in DOMAIN run[w].ctx
                  /\ k \in DOMAIN run[w].ctx => run'[w].ctx[k] = run[w].ctx[k]
            /\ run'[w].ctx["analysis_source"] = "local"
            /\ run'[w].executed = Append(run[w].executed, "gpt_analysis")
            /\ "gpt_analysis_error" \notin DOMAIN run'[w].ctx
            /\ run'[w].pc \in {"step", "finalize"}
            /\ ~run'[w].failed]_vars

\* the LLM failed in a run whose local steps had found a tone and issues, and
\* the Persistence step stored them afterwards
C12_Witness ==
    \E w \in Workers :
        /\ run[w].written /\ ~run[w].zero
        /\ "gpt_error" \in DOMAIN run[w].ctx
        /\ In("gpt_analysis", run[w].executed)
        /\ run[w].obj.tone = "negative"
        /\ run[w].obj.issues # <<>>
        /\ run[w].obj.analysis_source = "local"

\* C13: a job whose review id names no review returns a summary with
\* success=false and an error text; it is not retried, invokes no step, and
\* writes no AnalysisResult and no ticket
C13_ReviewNotFound ==
    /\ [](\A w \in Workers :
            run[w].review_id = MissingId =>
                /\ run[w].pc = "done"
                /\ run[w].result.success = FALSE
                /\ "error" \in DOMAIN run[w].result
                /\ run[w].retries = 0 /\ run[w].countdown = 0
                /\ run[w].invoked = <<>> /\ run[w].executed = <<>>
                /\ ~run[w].written)
    /\ [][\A w \in Workers :
            (run[w].review_id = MissingId \/ run'[w].review_id = MissingId)
                /\ run'[w] # run[w]
            => /\ results' = results /\ tickets' = tickets
               /\ run'[w].pc \in {"done", "idle"}]_vars

\* a job for a missing review has returned while the table of results has a
\* row
C13_Witness ==
    \E w \in Workers :
        /\ run[w].review_id = MissingId /\ run[w].pc = "done"
        /\ Len(results) = 1

\* C14: an exception outside the step loop, other than review-not-found,
\* makes the job retry after 60*(k+1) seconds, k = 0, 1, 2 being the retries
\* made so far; with 3 retries made the next such failure ends the job with the
\* summary {success: false, error}; a job executes at most 4 times and every
\* job ends with a summary that has a success flag
C14_BoundedRetry ==
    /\ [](\A w \in Workers :
            /\ run[w].retries <= 3
            /\ run[w].pc = "retry" => /\ run[w].retries \in 0..2
                                      /\ run[w].countdown = 60 * (run[w].retries + 1)
            /\ run[w].pc = "done" => run[w].result.success \in BOOLEAN)
    /\ [][\A w \in Workers :
            /\ (run'[w].failed /\ run'[w] # run[w] /\ run'[w].review_id = ReviewId)
               => IF run'[w].retries < 3
                  THEN run'[w].pc = "retry"
                  ELSE /\ run'[w].pc = "done"
                       /\ DOMAIN run'[w].result = {"success", "error"}
                       /\ run'[w].result.success = FALSE
            /\ (run[w].pc = "retry" /\ run'[w] # run[w])
               => run'[w].retries = run[w].retries + 1]_vars
    /\ \A w \in Workers : (run[w].pc # "idle") ~> (run[w].pc = "done")

\* the fourth execution of a job has failed and the job has ended
C14_Witness ==
    \E w \in Workers :
        /\ run[w].pc = "done" /\ run[w].failed
        /\ run[w].review_id = ReviewId
        /\ run[w].retries = 3
        /\ run[w].result.success = FALSE

C18_BatchSummary ==
    /\ [](batch.pc = "returned" =>
            /\ batch.i = Len(batch.review_ids) + 1
            /\ batch.results.total = Len(batch.review_ids)
            /\ batch.results.successful + batch.results.failed = batch.results.total
            /\ Len(batch.results.errors) = batch.results.failed)
    /\ [][(batch.pc = "loop" /\ batch' # batch) =>
            IF batch.i <= Len(batch.review_ids)
            THEN /\ batch'.pc = "loop" /\ batch'.i = batch.i + 1
                 /\ \/ /\ queue' = Append(queue, [task |-> "run_review_pipeline",
                                                   args |-> <<batch.review_ids[batch.i]>>,
                                                   queue |-> "analysis"])
                       /\ batch'.results.successful = batch.results.successful + 1
                    \/ /\ queue' = queue
                       /\ batch'.results.failed = batch.results.failed + 1
                       /\ batch'.results.errors[Len(batch'.results.errors)].review_id
                             = batch.review_ids[batch.i]
            ELSE batch'.pc = "returned" /\ queue' = queue]_vars

\* a batch of three has returned: the send of the second id failed, and the
\* third was sent all the same
C18_Witness ==
    /\ batch.pc = "returned"
    /\ Len(batch.review_ids) = 3
    /\ batch.results.successful = 2 /\ batch.results.failed = 1
    /\ batch.results.errors[1].review_id = batch.review_ids[2]
    /\ Len(queue) >= 2
    /\ queue[Len(queue)].args = <<batch.review_ids[3]>>

\* the tone the contract gives a polarity, in hundredths
StatedTone(polarity) ==
    CASE polarity < -50 -> "very_negative"
      [] -50 <= polarity /\ polarity < -10 -> "negative"
      [] -10 <= polarity /\ polarity <= 10 -> "neutral"
      [] 10 < polarity /\ polarity <= 50 -> "positive"
      [] polarity > 50 -> "very_positive"

\* C16: the tone is a total function of the polarity, whatever the rating:
\* below -0.5 very_negative, from -0.5 to below -0.1 negative, from -0.1 to 0.1
\* neutral, above 0.1 to 0.5 positive, above 0.5 very_positive
C16_ToneBoundaries ==
    probe.kind = "tone" =>
        /\ probe.vader => probe.raw_polarity = probe.polarity
        /\ probe.result = StatedTone(probe.raw_polarity)
        /\ probe.raw_polarity = -50 => probe.result = "negative"
        /\ probe.raw_polarity \in {-10, 10} => probe.result = "neutral"
        /\ probe.raw_polarity = 50 => probe.result = "positive"

\* the tone of polarity -0.5 was computed for a review of rating 5
C16_Witness ==
    /\ probe.kind = "tone"
    /\ probe.vader /\ probe.raw_polarity = -50 /\ probe.rating = 5
    /\ probe.result = "negative"

\* the characters of the step labels in the order of their code points
Alphabet == " ABCDEFGHIJKLMNOPQRSTUVWXYZabcdefghijklmnopqrstuvwxyz"

CharRank(c) == CHOOSE k \in 1..Len(Alphabet) : SubSeq(Alphabet, k, k) = c

\* a sorts before b, as strings
StrLess(a, b) ==
    \E k \in 1..Len(b) :
        /\ k <= Len(a) + 1
        /\ SubSeq(a, 1, k - 1) = SubSeq(b, 1, k - 1)
        /\ \/ k = Len(a) + 1
           \/ CharRank(SubSeq(a, k, k)) < CharRank(SubSeq(b, k, k))

\* config a comes before config b by (order, label)
OrderLabelBefore(a, b) ==
    \/ a.order < b.order
    \/ a.order = b.order /\ StrLess(a.label, b.label)

\* C17: a run goes through enabled configs only, in ascending order, and of
\* two configs of equal order the one whose label sorts first comes first
C17_OrderThenLabel ==
    \A w \in Workers :
        LET r == run[w]
        IN  r.pc \in {"step", "finalize", "done"} /\ ~r.zero =>
                /\ \A a \in 1..Len(r.cfgs) : r.cfgs[a].enabled
                /\ \A a, b \in 1..Len(r.cfgs) :
                      a < b /\ b < r.i => OrderLabelBefore(r.cfgs[a], r.cfgs[b])

\* the configs of a run whose key is registered, in the order of the run
RegisteredOf(cfgs) == SelectSeq(cfgs, LAMBDA c : c.key \in RegisteredKeys)

ErrorEntry(key) == key \o " (error)"

ErrorKey(key) == key \o "_error"

\* the run moves from the config it is at to the next one
LeavesConfig(r, r1) == r.pc \notin {"idle", "retry", "finalize", "done"} /\ r1.i = r.i + 1

\* C19: when a run with an enabled config ends, context['executed_steps'] has
\* one entry per config of a registered key, in execution order: the key of a
\* step that returned, '<key> (error)' of a step that raised, with
\* context['<key>_error'] present exactly for the steps that raised; a config
\* of an unregistered key adds no entry and no error key, and the configs
\* after it are still gone through
C19_ExecutedSteps ==
    /\ [](\A w \in Workers :
            LET r == run[w]
                reg == RegisteredOf(r.cfgs)
            IN  r.pc = "done" /\ ~r.failed /\ ~r.zero =>
                    /\ r.ctx["executed_steps"] = r.executed
                    /\ Len(r.executed) = Len(reg)
                    /\ \A k \in 1..Len(reg) :
                          /\ r.executed[k] \in {reg[k].key, ErrorEntry(reg[k].key)}
                          /\ ErrorKey(reg[k].key) \in DOMAIN r.ctx
                                <=> r.executed[k] = ErrorEntry(reg[k].key)
                    /\ \A k \in 1..Len(r.cfgs) :
                          r.cfgs[k].key \notin RegisteredKeys =>
                              ErrorKey(r.cfgs[k].key) \notin DOMAIN r.ctx)
    /\ [][\A w \in Workers :
            LeavesConfig(run[w], run'[w]) =>
                LET r == run[w]
                    r1 == run'[w]
                    key == r.cfgs[r.i].key
                IN  IF key \notin RegisteredKeys
                    THEN r1.executed = r.executed /\ r1.ctx = r.ctx
                    ELSE IF faults' > faults /\ ~r1.absorbed
                    THEN /\ r1.executed = Append(r.executed, ErrorEntry(key))
                         /\ ErrorKey(key) \in DOMAIN r1.ctx
                    ELSE /\ r1.executed = Append(r.executed, key)
                         /\ ErrorKey(key) \in DOMAIN r1.ctx
                               <=> ErrorKey(key) \in DOMAIN r.ctx]_vars

\* a run has ended in which a step raised, a config of an unregistered key
\* was passed over, and a step after both returned
C19_Witness ==
    \E w \in Workers :
        LET r == run[w]
        IN  /\ r.pc = "done" /\ ~r.failed /\ ~r.zero
            /\ \E a, b, c \in 1..Len(r.cfgs) :
                  /\ a < c /\ b < c
                  /\ ErrorKey(r.cfgs[a].key) \in DOMAIN r.ctx
                  /\ r.cfgs[b].key \notin RegisteredKeys
                  /\ r.cfgs[c].key \in RegisteredKeys
                  /\ r.ctx["executed_steps"][Len(r.executed)] = r.cfgs[c].key

\* the entries of executed_steps of the steps that ran before Persistence
EarlierSteps(executed) ==
    LET ks == {k \in 1..Len(executed) :
                  executed[k] \in {"persistence", ErrorEntry("persistence")}}
    IN  IF ks = {} THEN executed
        ELSE SubSeq(executed, 1, (CHOOSE k \in ks : \A j \in ks : k <= j) - 1)

\* C20: the executed_steps that the Persistence step stores in full_payload
\* has, in execution order, an entry for every step that ran before it in the
\* run, followed by 'persistence'
C20_PayloadListsEarlierSteps ==
    \A w \in Workers :
        LET r == run[w]
        IN  r.written /\ ~r.zero =>
                r.obj.full_payload.executed_steps
                    = Append(EarlierSteps(r.executed), "persistence")

\* the LLM step has called the LLM: the call leaves its cost or its error
LlmCalled(context) == "gpt_cost" \in DOMAIN context \/ "gpt_error" \in DOMAIN context

\* the condition the contract gives for the call
StatedLlmCall(params, api_key, context) ==
    /\ api_key
    /\ \/ "skip_if_simple" \in DOMAIN params /\ params["skip_if_simple"] = FALSE
       \/ /\ ~("skip_gpt" \in DOMAIN context /\ context["skip_gpt"] = TRUE)
          /\ ~("complex_review" \in DOMAIN context
                /\ context["complex_review"] \in {None, ""})

\* C21: the LLM step calls the LLM exactly when a client is configured and
\* (skip_if_simple is false or (skip_gpt is not true and complex_review is
\* not present with a falsy value)); when it does not call, the context it
\* returns is the context it received
C21_LlmCallCondition ==
    probe.kind = "gpt" =>
        /\ LlmCalled(probe.result)
              <=> StatedLlmCall(probe.params, probe.api_key, probe.context)
        /\ ~LlmCalled(probe.result) =>
              /\ probe.result = probe.context
              /\ "analysis_source" \notin DOMAIN probe.result

\* the step was given a context with complex_review present and null, under
\* skip_if_simple, with a client configured, and returned it untouched
C21_Witness ==
    /\ probe.kind = "gpt"
    /\ probe.api_key
    /\ probe.params = [skip_if_simple |-> TRUE]
    /\ "skip_gpt" \notin DOMAIN probe.context
    /\ "complex_review" \in DOMAIN probe.context
    /\ probe.context["complex_review"] = None
    /\ probe.result = probe.context

\* the LLM was called and answered with a JSON object
LlmAnswered == probe.kind = "gpt" /\ LlmCalled(probe.result) /\ probe.llm.ok

\* the internal tone of a label, compared without regard to case
StatedMapTone(label) ==
    LET l == Lower(label)
    IN  CASE l = "very negative" -> "very_negative"
          [] l = "negative" -> "negative"
          [] l = "neutral" -> "neutral"
          [] l = "positive" -> "positive"
          [] l = "very positive" -> "very_positive"
          [] OTHER -> "neutral"

\* C22: after a successful LLM call the tone in context is the internal value
\* of the LLM's tone label compared case-insensitively, and neutral for a
\* label that is none of the five
C22_ToneCaseInsensitive ==
    LlmAnswered /\ "tone" \in DOMAIN probe.llm.json =>
        probe.result["tone"] = StatedMapTone(probe.llm.json["tone"])

\* C27: when the LLM's JSON object has no tone field, the tone in context
\* after the LLM step is the tone that was in context before it
C27_LocalToneKept ==
    (LlmAnswered /\ "tone" \notin DOMAIN probe.llm.json
        /\ "tone" \in DOMAIN probe.context) =>
        probe.result["tone"] = probe.context["tone"]

\* the six rules of the contract on the probed review; parsed is TRUE when
\* rule 1 is to wait for the parsed document
ComplexRule(n, parsed) ==
    LET rv == probe.review
        polarity == probe.context["raw_polarity"]
        subjectivity == probe.context["raw_subjectivity"]
    IN  CASE n = 1 -> /\ Abs(polarity) < 30 /\ subjectivity > 40 /\ rv.sentences > 1
                      /\ parsed => probe.doc
          [] n = 2 -> rv.rating >= 4 /\ polarity < -30
          [] n = 3 -> rv.rating <= 2 /\ polarity > 30
          [] n = 4 -> Abs(50 * (rv.rating - 3) - polarity) > 70
          [] n = 5 -> /\ probe.doc /\ probe.vader
                      /\ rv.sentences > 1 /\ rv.spread > 100
          [] n = 6 -> /\ rv.words < 5 /\ rv.rating \in {1, 5}
                      /\ ~(rv.rating = 5 /\ polarity > 30)

ComplexReasons ==
    <<"Need review: Mixed or ambiguous sentiment",
      "Need review: High rating but negative sentiment - possible sarcasm",
      "Need review: Low rating but positive sentiment",
      "Need review: Significant mismatch between rating and sentiment",
      "Need review: Conflicting sentiments across sentences",
      "Need review: Very short review with extreme rating">>

\* the reason of the first rule that holds, null when none does
StatedComplex(parsed) ==
    LET holds == {n \in 1..6 : ComplexRule(n, parsed)}
    IN  IF holds = {} THEN None
        ELSE ComplexReasons[CHOOSE n \in holds : \A m \in holds : n <= m]

\* C25: complex_review is the reason of the first of the six rules whose
\* condition holds for the review, null when none holds, whatever skip_gpt is
C25_FirstRuleWins ==
    probe.kind = "complexity" =>
        probe.result["complex_review"] = StatedComplex(FALSE)

\* C25 as amended: rule 1 applies only when the parsed document of the review
\* is in the context
C25_FirstRuleWinsWhenParsed ==
    probe.kind = "complexity" =>
        probe.result["complex_review"] = StatedComplex(TRUE)

\* rules 1 and 4 both hold for a parsed review, and the reason of rule 1 is
\* stored
C25_Witness ==
    /\ probe.kind = "complexity"
    /\ ComplexRule(1, TRUE) /\ ComplexRule(4, TRUE)
    /\ "skip_gpt" \in DOMAIN probe.context
    /\ probe.result["complex_review"] = ComplexReasons[1]

\* C30: on the keyword fallback the clamp never changes the polarity, whose
\* absolute value is at most 0.94; a rating of 4 or 5 gives the tone positive
\* or very_positive, a rating of 1 or 2 negative or very_negative, and the
\* complexity rules 2, 3 and 4 never fire
C30_FallbackPolarity ==
    probe.kind = "fallback" =>
        /\ probe.result["raw_polarity"] = probe.unclamped
        /\ Abs(probe.result["raw_polarity"]) <= 94
        /\ probe.review.rating >= 4
              => probe.result["tone"] \in {"positive", "very_positive"}
        /\ probe.review.rating <= 2
              => probe.result["tone"] \in {"negative", "very_negative"}
        /\ probe.result["complex_review"]
              \notin {ComplexReasons[2], ComplexReasons[3], ComplexReasons[4]}

\* a review of rating 4 with no positive and all eight negative keywords:
\* polarity 0.11, still positive
C30_Witness ==
    /\ probe.kind = "fallback"
    /\ probe.review.rating = 4
    /\ probe.review.pos_hits = 0 /\ probe.review.neg_hits = KeywordCount
    /\ probe.result["raw_polarity"] = 11
    /\ probe.result["tone"] = "positive"

\* the run went through its enabled configs and none was of persistence
RanWithoutPersistence(r) ==
    /\ r.pc = "done" /\ ~r.failed /\ ~r.zero
    /\ ~\E k \in 1..Len(r.cfgs) : r.cfgs[k].key = "persistence"

\* C23: a run with an enabled config in which the persistence step never
\* executed, its config being disabled or missing, has logged the warning
\* that the results are not saved when it returns its summary, also when no
\* step at all was recorded as executed
C23_WarnedWhenNotSaved ==
    \A w \in Workers : RanWithoutPersistence(run[w]) => run[w].warned

\* the run is at the ticket of the Persistence step and the database fails
TicketFails(r) == r.pc \in {"ticket_find", "ticket_save", "ticket_create"} /\ faults' > faults

\* C28: when the lookup, the update or the creation of the ticket raises, the
\* AnalysisResult the step wrote stays stored, the context gets
\* analysis_result_id and ticket_id = null, the step is recorded as
\* 'persistence', and the run returns success=true
C28_TicketErrorAbsorbed ==
    /\ [][\A w \in Workers :
            TicketFails(run[w]) =>
                LET r == run[w]
                    r1 == run'[w]
                IN  /\ results' = results /\ tickets' = tickets
                    /\ ReviewTaken(results, ReviewId)
                    /\ results[RowOf(results, ReviewId)].id = r.obj.id
                    /\ r1.ctx["analysis_result_id"] = r.obj.id
                    /\ "ticket_id" \in DOMAIN r1.ctx /\ r1.ctx["ticket_id"] = None
                    /\ r1.executed = Append(r.executed, "persistence")
                    /\ r1.pc \in {"step", "finalize"} /\ ~r1.failed]_vars
    /\ [](\A w \in Workers :
            run[w].pc = "done" /\ run[w].absorbed =>
                /\ ~run[w].failed
                /\ run[w].result.success = TRUE
                /\ run[w].result.analysis_result_id = run[w].obj.id
                /\ run[w].result.ticket_id = None
                /\ In("persistence", run[w].ctx["executed_steps"])
                /\ ReviewTaken(results, ReviewId))

\* a run has returned whose save of the existing ticket raised
C28_Witness ==
    \E w \in Workers :
        /\ run[w].pc = "done" /\ run[w].absorbed
        /\ run[w].tk # <<>>
        /\ run[w].result.success = TRUE

TicketFrame == {"priority", "notes", "status", "assignee"}

\* two tickets agree on priority, notes, status and assignee
SameFrame(a, b) == \A f \in TicketFrame : a[f] = b[f]

\* C26: a run that finds an open or in_progress ticket of the review changes
\* only the analysis_result of that ticket: its priority, notes, status and
\* assignee stay as they were, also when the new analysis would give another
\* priority or other notes
C26_OnlyReferenceChanges ==
    [][\A w \in Workers :
         LET r == run[w]
         IN  /\ (r.pc = "ticket_find" /\ run'[w].pc = "ticket_save")
                => /\ tickets' = tickets
                   /\ SameFrame(run'[w].tk, tickets[run'[w].tk.id])
             /\ (r.pc = "ticket_save" /\ run'[w] # r /\ faults' = faults
                   /\ SameFrame(r.tk, tickets[r.tk.id]))
                => /\ SameFrame(tickets'[r.tk.id], tickets[r.tk.id])
                   /\ tickets'[r.tk.id].analysis_result = r.obj.id
                   /\ \A t \in 1..Len(tickets) :
                         t # r.tk.id => tickets'[t] = tickets[t]]_vars

\* a run has returned that re-pointed a ticket whose priority is not the one
\* its own analysis gives
C26_Witness ==
    \E w \in Workers :
        LET r == run[w]
        IN  /\ r.pc = "done" /\ r.tk # <<>> /\ ~r.absorbed
            /\ tickets[r.tk.id].analysis_result = r.obj.id
            /\ tickets[r.tk.id].priority # NewTicket(r.tk.id, r.obj).priority
            /\ tickets[r.tk.id].notes # NewTicket(r.tk.id, r.obj).notes

SeedKeys == {"review_id", "app_name", "platform", "rating"}

\* the worker stays in the run it is in
SameRun(r, r1) == r.pc \notin {"idle", "retry", "done"} /\ r1.pc \notin {"idle", "retry"}

\* C24: during a run no key leaves the context: after every step, whether it
\* returned, skipped or raised, the keys that were present are present, the
\* seed keys review_id, app_name, platform and rating among them
C24_KeysNeverRemoved ==
    /\ [](\A w \in Workers :
            run[w].pc \notin {"idle", "retry"} /\ ~run[w].failed
                => SeedKeys \subseteq DOMAIN run[w].ctx)
    /\ [][\A w \in Workers :
            SameRun(run[w], run'[w])
                => DOMAIN run[w].ctx \subseteq DOMAIN run'[w].ctx]_vars

\* a run has returned in which a step raised, the LLM answered and the
\* Persistence step wrote the result: the keys of all of them are there
C24_Witness ==
    \E w \in Workers :
        /\ run[w].pc = "done" /\ ~run[w].failed
        /\ SeedKeys \cup {"gpt_cost", "analysis_result_id", "executed_steps"}
              \subseteq DOMAIN run[w].ctx
        /\ \E k \in RegisteredKeys : ErrorKey(k) \in DOMAIN run[w].ctx

\* C29: reanalyze_and_reopen keeps 'at most one open or in_progress ticket
\* per review' in every interleaving of the runs it sends with its update of
\* the status, also when a selected closed ticket belongs to a review that
\* has, or gets during the re-analysis, another active ticket
C29_ReopenKeepsOneActive ==
    [][Cardinality(ActiveTickets) <= 1 => Cardinality(ActiveTickets') <= 1]_vars
====
